---- MODULE Spec2Model ----
(***************************************************************************)
(* A model of the TrustGraph core of trustlayer: TrustAtomStorage          *)
(* (storage.py), ProductMatcher (product_matcher.py), ContentAnalyzer      *)
(* (content_analyzer.py), DataPreprocessor (preprocessor.py),              *)
(* TrustAtomCreator (trust_atom_creator.py) and TrustGraphPipeline         *)
(* (pipeline.py).                                                          *)
(*                                                                         *)
(* Python strings whose characters the code inspects (product ids, texts,  *)
(* names) are sequences of one-character strings, so that "x in y",        *)
(* lower() and difflib's ratio are computed and not assumed.               *)
(***************************************************************************)
EXTENDS Integers, Sequences, FiniteSets, TLC

(***************************************************************************)
(* Bounds of the model.                                                    *)
(***************************************************************************)
\* store operations per behaviour
MaxAtoms == 2
\* characters of a text handed to match_product
MaxTextLen == 2
\* products in the registry
MaxProducts == 2
\* match_product calls per behaviour
MaxCalls == 1
\* failing writes per behaviour
MaxFailures == 1
\* words of a text handed to generate_summary
MaxWords == 9
\* words of a text handed to analyze_sentiment
MaxSentimentWords == 3
\* pieces of a text handed to clean_text
MaxPieces == 4
\* comments of a batch input file
MaxComments == 2

VARIABLES
    fs,         \* the JSON collections under base_path: path -> content
    nextId,     \* number of atoms created so far (the fresh suffix of atom_id)
    stored,     \* history: the atoms handed to a store operation, in call order
    failures,   \* history: number of writes that failed so far
    last,       \* the last operation: its name, arguments, result and pre-state
    writers,    \* concurrent _store_in_file calls: position and local variables
    registry,   \* ProductMatcher.product_registry: the products in file order
    embeddings, \* whether ProductMatcher.embeddings is a non-empty dictionary
    log,        \* the file registry_suggestions.json
    calls,      \* number of match_product calls so far (the clock of the log)
    mlast,      \* the last match_product call: arguments, result and pre-state
    alast,      \* the last call of a component function: arguments and result
    plast       \* the last batch call of the pipeline: arguments and result

storageVars == <<fs, nextId, stored, failures, last>>
matcherVars == <<registry, embeddings, log, calls, mlast>>
componentVars == <<alast, plast>>
vars == <<fs, nextId, stored, failures, last, writers,
          registry, embeddings, log, calls, mlast, alast, plast>>

(***************************************************************************)
(* Strings as character sequences.                                         *)
(***************************************************************************)
\* Python's "needle in hay" for strings: needle occurs as a contiguous run.
Contains(hay, needle) ==
    \E i \in 0..(Len(hay) - Len(needle)) :
        \A j \in 1..Len(needle) : hay[i + j] = needle[j]

Range(s) == {s[i] : i \in 1..Len(s)}

(***************************************************************************)
(* storage.py: TrustAtomStorage                                            *)
(***************************************************************************)
KwCleanser    == <<"c","l","e","a","n","s","e","r">>
KwMoisturizer == <<"m","o","i","s","t","u","r","i","z","e","r">>
KwSerum       == <<"s","e","r","u","m">>
KwFood        == <<"f","o","o","d">>
KwSnack       == <<"s","n","a","c","k">>
KwDrink       == <<"d","r","i","n","k">>
KwDetergent   == <<"d","e","t","e","r","g","e","n","t">>
KwCleaner     == <<"c","l","e","a","n","e","r">>

\* _get_category: the first keyword group with a member occurring in the id.
GetCategory(product_id) ==
    IF Contains(product_id, KwCleanser) \/ Contains(product_id, KwMoisturizer)
       \/ Contains(product_id, KwSerum)
    THEN "skincare"
    ELSE IF Contains(product_id, KwFood) \/ Contains(product_id, KwSnack)
            \/ Contains(product_id, KwDrink)
    THEN "food"
    ELSE IF Contains(product_id, KwDetergent) \/ Contains(product_id, KwCleaner)
    THEN "household"
    ELSE "unknown"

Categories == {"skincare", "food", "household", "unknown"}

\* The product ids and source tags of the atoms that are stored.
PidSerum   == <<"s","e","r","u","m","_","x">>
PidCleanser == <<"c","l","e","a","n","s","e","r">>
PidUnknownProduct ==
    <<"u","n","k","n","o","w","n","_","p","r","o","d","u","c","t">>
StorePids == {PidSerum, PidCleanser, PidUnknownProduct}
Sources   == {"reddit", "youtube"}

\* The product ids retrievals ask for.
QueryPids == StorePids

\* A Trust Atom as storage sees it.  atom_id is source, product id and a
\* fresh suffix (trust_atom_creator.py line 80); the other fields are payload
\* that storage never reads.
MkAtom(n, pid, src) ==
    [atom_id |-> <<src, pid, n>>, product_id |-> pid, source |-> src]

\* The collection files: categories/<category>.json, sources/<source>.json,
\* trust_atoms/<product_id>.json.
CategoryPath(c) == <<"categories", c>>
SourcePath(s)   == <<"sources", s>>
ProductPath(p)  == <<"trust_atoms", p>>
Paths ==
    {CategoryPath(c) : c \in Categories} \cup {SourcePath(s) : s \in Sources}
    \cup {ProductPath(p) : p \in QueryPids}

\* Content of a path: no file, a file holding a JSON list, or a file that
\* json.load rejects (a truncated write).
Absent  == [kind |-> "absent",  data |-> <<>>]
Corrupt == [kind |-> "corrupt", data |-> <<>>]
ListOf(d) == [kind |-> "list", data |-> d]

\* What the environment does to one _store_in_file call.
\*   "ok"           every file operation succeeds
\*   "error_early"  makedirs, the read or open(path, "w") raises
\*   "error_write"  open(path, "w") has truncated the file and json.dump or
\*                  the closing flush raises
Outcomes == {"ok", "error_early", "error_write"}

\* A load that forgets what the file holds.
LoadExistingAlwaysEmpty(content) ==
    [ok |-> content.kind # "corrupt", data |-> <<>>]

\* The loading half of _store_in_file (lines 124-128): an absent file is the
\* empty list, a file json.load rejects raises.
LoadExisting(content) ==
    CASE content.kind = "absent"  -> [ok |-> TRUE,  data |-> <<>>]
      [] content.kind = "list"    -> [ok |-> TRUE,  data |-> content.data]
      [] content.kind = "corrupt" -> [ok |-> FALSE, data |-> <<>>]

\* The persisting half (lines 133-135): open(path, "w") truncates the file,
\* json.dump writes the list; a failure after the truncation leaves a file
\* that is no JSON document.
Persist(data, outcome) ==
    IF outcome = "ok" THEN ListOf(data) ELSE Corrupt

\* A store that writes the new atom alone instead of the extended list.
StoreInFileOverwriting(content, atom, outcome) ==
    IF outcome = "error_early" \/ content.kind = "corrupt"
    THEN [ok |-> FALSE, raised |-> FALSE, content |-> content]
    ELSE [ok      |-> (outcome = "ok"),
          raised  |-> FALSE,
          content |-> Persist(<<atom>>, outcome)]

\* A store without the except branch: a failure leaves the call as an
\* exception.
StoreInFileRaising(content, atom, outcome) ==
    IF outcome = "error_early" \/ content.kind = "corrupt"
    THEN [ok |-> FALSE, raised |-> TRUE, content |-> content]
    ELSE [ok      |-> (outcome = "ok"),
          raised  |-> (outcome # "ok"),
          content |-> Persist(Append(content.data, atom), outcome)]

\* _store_in_file: load, append, persist inside try/except Exception.
\* Result: the boolean it returns, whether an exception leaves the call, and
\* the content of the file afterwards.
StoreInFile(content, atom, outcome) ==
    LET loaded == LoadExisting(content) IN
    IF outcome = "error_early" \/ ~loaded.ok
    THEN [ok |-> FALSE, raised |-> FALSE, content |-> content]
    ELSE [ok      |-> (outcome = "ok"),
          raised  |-> FALSE,
          content |-> Persist(Append(loaded.data, atom), outcome)]

\* A category store that files every atom under "unknown".
DestPathCategoryUnknown(dest, atom) ==
    CASE dest = "category"   -> CategoryPath("unknown")
      [] dest = "source"     -> SourcePath(atom.source)
      [] dest = "trust_atom" -> ProductPath(atom.product_id)

\* The destination files of one atom (store_by_category, store_by_source,
\* store_as_trust_atom).
DestPath(dest, atom) ==
    CASE dest = "category"   -> CategoryPath(GetCategory(atom.product_id))
      [] dest = "source"     -> SourcePath(atom.source)
      [] dest = "trust_atom" -> ProductPath(atom.product_id)

Dests == <<"category", "source", "trust_atom">>

\* store_all builds its result dictionary entry by entry: category, source,
\* trust_atom.  An exception leaving one store would end the call there.
\* outs[i] is what the environment does to the i-th store.
RECURSIVE StoreSeq(_, _, _, _, _)
StoreSeq(f, atom, outs, i, acc) ==
    IF i > Len(Dests) \/ acc.raised THEN [acc EXCEPT !.fs = f]
    ELSE LET path == DestPath(Dests[i], atom)
             r    == StoreInFile(f[path], atom, outs[i])
         IN StoreSeq([f EXCEPT ![path] = r.content], atom, outs, i + 1,
                     [acc EXCEPT !.flags = [acc.flags EXCEPT ![Dests[i]] = r.ok],
                                 !.attempted = acc.attempted \cup {Dests[i]},
                                 !.raised = r.raised])

NoFlags == [d \in Range(Dests) |-> FALSE]

StoreAllResult(f, atom, outs) ==
    StoreSeq(f, atom, outs, 1,
             [flags |-> NoFlags, attempted |-> {}, raised |-> FALSE, fs |-> f])

\* Permutations of a finite set, as sequences (the orders os.listdir may use).
Perms(S) ==
    {s \in [1..Cardinality(S) -> S] : \A i, j \in 1..Cardinality(S) : s[i] = s[j] => i = j}

RECURSIVE ScanCategories(_, _, _, _)
\* Lines 190-202: every category file in listing order, unreadable ones
\* skipped, atoms filtered by product_id.
ScanCategories(f, order, i, product_id) ==
    IF i > Len(order) THEN <<>>
    ELSE LET c == f[CategoryPath(order[i])]
             hit(a) == a.product_id = product_id
         IN (IF c.kind = "list" THEN SelectSeq(c.data, hit) ELSE <<>>)
            \o ScanCategories(f, order, i + 1, product_id)

ExistingCategories(f) == {c \in Categories : f[CategoryPath(c)].kind # "absent"}

\* A retrieval that reads the category files whatever the product file holds.
GetTrustAtomsByProductScanning(f, product_id, order) ==
    ScanCategories(f, order, 1, product_id)

\* get_trust_atoms_by_product: the product file if it exists and parses,
\* else the scan of the category files.
GetTrustAtomsByProduct(f, product_id, order) ==
    IF f[ProductPath(product_id)].kind = "list"
    THEN f[ProductPath(product_id)].data
    ELSE ScanCategories(f, order, 1, product_id)

\* get_trust_atoms_by_source / get_trust_atoms_by_category: the file's list,
\* [] when the file is absent or does not parse.
GetTrustAtomsBySource(f, source) ==
    IF f[SourcePath(source)].kind = "list" THEN f[SourcePath(source)].data ELSE <<>>

GetTrustAtomsByCategory(f, category) ==
    IF f[CategoryPath(category)].kind = "list"
    THEN f[CategoryPath(category)].data ELSE <<>>

(***************************************************************************)
(* product_matcher.py: ProductMatcher                                      *)
(***************************************************************************)
\* Scores are exact fractions [n, d] in lowest terms.  The scores of stage 2
\* are 2*M/T and 1.2 * 2*M/T for small integers M and T, and the thresholds
\* are 0.6 and 1.0, so comparing the fractions decides as the floats do.
RECURSIVE GCD(_, _)
GCD(x, y) == IF y = 0 THEN x ELSE GCD(y, x % y)

Frac(n, d) == LET g == GCD(n, d) IN [n |-> n \div g, d |-> d \div g]

Greater(x, y) == x.n * y.d > y.n * x.d
AtLeast(x, y) == x.n * y.d >= y.n * x.d
FracMin(x, y) == IF Greater(x, y) THEN y ELSE x
Times(x, y)   == Frac(x.n * y.n, x.d * y.d)

Zero == Frac(0, 1)
One  == Frac(1, 1)

\* str.lower() on the characters of the model.
LowerChar(c) ==
    CASE c = "A" -> "a" [] c = "B" -> "b" [] c = "G" -> "g" [] c = "R" -> "r"
      [] c = "T" -> "t" [] c = "Y" -> "y" [] OTHER -> c
Lower(s) == [i \in 1..Len(s) |-> LowerChar(s[i])]

\* The value None where a product id is expected.
None == <<"None">>

\* a[i..i+k-1] = b[j..j+k-1]
BlockAt(a, b, i, j, k) == \A m \in 0..(k - 1) : a[i + m] = b[j + m]

\* Some block of size k lies in a[alo..ahi-1] and b[blo..bhi-1].
HasBlock(a, b, alo, ahi, blo, bhi, k) ==
    \E i \in alo..(ahi - k) : \E j \in blo..(bhi - k) : BlockAt(a, b, i, j, k)

RECURSIVE LongestBlockSize(_, _, _, _, _, _, _)
LongestBlockSize(a, b, alo, ahi, blo, bhi, k) ==
    IF k = 0 \/ HasBlock(a, b, alo, ahi, blo, bhi, k) THEN k
    ELSE LongestBlockSize(a, b, alo, ahi, blo, bhi, k - 1)

\* difflib.SequenceMatcher.find_longest_match on a[alo..ahi-1], b[blo..bhi-1]
\* (1-based, upper ends excluded), no junk: the longest block, of those the
\* one starting earliest in a, of those the one starting earliest in b.
FindLongestMatch(a, b, alo, ahi, blo, bhi) ==
    LET k == LongestBlockSize(a, b, alo, ahi, blo, bhi, ahi - alo)
        starts(i) == {j \in blo..(bhi - k) : BlockAt(a, b, i, j, k)}
        i == CHOOSE x \in alo..(ahi - k) :
                 /\ starts(x) # {}
                 /\ \A y \in alo..(x - 1) : starts(y) = {}
        j == CHOOSE x \in starts(i) : \A y \in starts(i) : x <= y
    IN IF k = 0 THEN <<alo, blo, 0>> ELSE <<i, j, k>>

\* Sum of the sizes of get_matching_blocks: the longest block, then the same
\* to its left and to its right.
RECURSIVE MatchingSize(_, _, _, _, _, _)
MatchingSize(a, b, alo, ahi, blo, bhi) ==
    LET t == FindLongestMatch(a, b, alo, ahi, blo, bhi) IN
    IF t[3] = 0 THEN 0
    ELSE t[3] + MatchingSize(a, b, alo, t[1], blo, t[2])
              + MatchingSize(a, b, t[1] + t[3], ahi, t[2] + t[3], bhi)

\* _fuzzy_match_score: SequenceMatcher(None, str1, str2).ratio(), that is
\* 2*M/T, and 1.0 when both strings are empty.
FuzzyMatchScore(str1, str2) ==
    IF Len(str1) + Len(str2) = 0 THEN One
    ELSE Frac(2 * MatchingSize(str1, str2, 1, Len(str1) + 1, 1, Len(str2) + 1),
              Len(str1) + Len(str2))

\* The products a registry file may list.  A field a product lacks is the
\* empty string (product.get(field, "")).
ProdSerum ==
    [product_id |-> PidSerum, canonical_name |-> <<"A","b">>, brand |-> <<"A">>,
     type |-> <<"b">>, aliases |-> << <<"b","a">> >>, identifiers |-> << <<"A">> >>]
ProdCleanser ==
    [product_id |-> PidCleanser, canonical_name |-> <<"a">>, brand |-> <<>>,
     type |-> <<>>, aliases |-> << <<"B","b">> >>, identifiers |-> <<>>]
ProdSnack ==
    [product_id |-> <<"s","n","a","c","k">>, canonical_name |-> <<"b","a","b">>,
     brand |-> <<"b">>, type |-> <<"a","a">>, aliases |-> <<>>,
     identifiers |-> << <<"b","A">> >>]
Catalog == {ProdSerum, ProdCleanser, ProdSnack}

\* The registries: the products of the file in file order, each id once.
Registries ==
    UNION {{r \in [1..n -> Catalog] : \A i, j \in 1..n : r[i] = r[j] => i = j}
               : n \in 0..MaxProducts}

\* The registry file: missing, not JSON, or a JSON object.
RegistryFiles ==
    {[kind |-> "missing", data |-> <<>>], [kind |-> "unparseable", data |-> <<>>]}
    \cup {[kind |-> "json", data |-> r] : r \in Registries}

\* _load_product_registry: the file's object, {} when it cannot be loaded.
LoadProductRegistry(file) == IF file.kind = "json" THEN file.data ELSE <<>>

TextChars == {"a", "b", "A"}
Texts == UNION {[1..n -> TextChars] : n \in 0..MaxTextLen}

\* exact_alias_match without lower(): a comparison that minds the case.
RECURSIVE ExactAliasMatchCaseSensitive(_, _, _)
ExactAliasMatchCaseSensitive(reg, text, i) ==
    IF i > Len(reg) THEN [product_id |-> None, confidence |-> Zero]
    ELSE LET product == reg[i] IN
         IF product.canonical_name # <<>> /\ Contains(text, product.canonical_name)
         THEN [product_id |-> product.product_id, confidence |-> Frac(95, 100)]
         ELSE IF \E k \in 1..Len(product.aliases) : Contains(text, product.aliases[k])
         THEN [product_id |-> product.product_id, confidence |-> Frac(90, 100)]
         ELSE ExactAliasMatchCaseSensitive(reg, text, i + 1)

\* exact_alias_match from product i on: the first product in registry order
\* whose canonical name (0.95) or one of whose aliases (0.9) is in the text.
RECURSIVE ExactAliasMatch(_, _, _)
ExactAliasMatch(reg, text, i) ==
    IF i > Len(reg) THEN [product_id |-> None, confidence |-> Zero]
    ELSE LET product == reg[i]
             text_lower == Lower(text)
             canonical_name == Lower(product.canonical_name)
         IN IF canonical_name # <<>> /\ Contains(text_lower, canonical_name)
            THEN [product_id |-> product.product_id, confidence |-> Frac(95, 100)]
            ELSE IF \E k \in 1..Len(product.aliases) :
                        Contains(text_lower, Lower(product.aliases[k]))
            THEN [product_id |-> product.product_id, confidence |-> Frac(90, 100)]
            ELSE ExactAliasMatch(reg, text, i + 1)

\* The loops of fuzzy_brand_product_match (lines 173-193): the best score so
\* far is replaced only by a strictly greater one.
RECURSIVE BestCandidate(_, _, _, _, _, _)
BestCandidate(reg, text_lower, brands, boost, i, best) ==
    IF i > Len(reg) THEN best
    ELSE LET product == reg[i]
             score == Times(FuzzyMatchScore(Lower(product.canonical_name),
                                            text_lower), boost)
             taken == (brands = {} \/ Lower(product.brand) \in brands)
                      /\ Greater(score, best.score)
         IN BestCandidate(reg, text_lower, brands, boost, i + 1,
                          IF taken THEN [match |-> product.product_id, score |-> score]
                          ELSE best)

\* A fuzzy match that returns the boosted score as it is.
FuzzyBrandProductMatchUnclamped(reg, text) ==
    LET text_lower == Lower(text)
        mentioned_brands ==
            {Lower(reg[i].brand) : i \in {j \in 1..Len(reg) :
                 reg[j].brand # <<>> /\ Contains(text_lower, Lower(reg[j].brand))}}
        best == BestCandidate(reg, text_lower, mentioned_brands,
                              IF mentioned_brands # {} THEN Frac(12, 10) ELSE One,
                              1, [match |-> None, score |-> Zero])
    IN [product_id |-> best.match, confidence |-> best.score]

\* fuzzy_brand_product_match: the products of the brands the text mentions,
\* scored 1.2 * ratio, or with no brand mentioned all products scored by the
\* ratio; the score is cut at 1.0.
FuzzyBrandProductMatch(reg, text) ==
    LET text_lower == Lower(text)
        mentioned_brands ==
            {Lower(reg[i].brand) : i \in {j \in 1..Len(reg) :
                 reg[j].brand # <<>> /\ Contains(text_lower, Lower(reg[j].brand))}}
        best == BestCandidate(reg, text_lower, mentioned_brands,
                              IF mentioned_brands # {} THEN Frac(12, 10) ELSE One,
                              1, [match |-> None, score |-> Zero])
    IN [product_id |-> best.match, confidence |-> FracMin(best.score, One)]

\* semantic_similarity_match: a placeholder that finds nothing.
SemanticSimilarityMatch(text) == [product_id |-> None, confidence |-> Zero]

\* list.sort(key=score, reverse=True): stable, so equal scores keep their
\* registry order.  Insertion of x behind every element not smaller.
RECURSIVE InsertByScore(_, _)
InsertByScore(sorted, x) ==
    IF sorted = <<>> THEN <<x>>
    ELSE IF AtLeast(Head(sorted).score, x.score)
    THEN <<Head(sorted)>> \o InsertByScore(Tail(sorted), x)
    ELSE <<x>> \o sorted

RECURSIVE SortByScore(_, _, _)
SortByScore(all_matches, i, acc) ==
    IF i > Len(all_matches) THEN acc
    ELSE SortByScore(all_matches, i + 1, InsertByScore(acc, all_matches[i]))

\* limit of _get_alternative_matches
AlternativesLimit == 3

\* _get_alternative_matches: every product scored by the ratio, sorted, the
\* first dropped, the next `limit` kept.
GetAlternativeMatches(reg, text) ==
    LET text_lower == Lower(text)
        all_matches == [i \in 1..Len(reg) |->
                           [product_id |-> reg[i].product_id,
                            score |-> FuzzyMatchScore(Lower(reg[i].canonical_name),
                                                      text_lower)]]
        sorted == SortByScore(all_matches, 1, <<>>)
    IN SubSeq(sorted, 2, IF Len(sorted) < AlternativesLimit + 1
                         THEN Len(sorted) ELSE AlternativesLimit + 1)

\* The context factors of _create_match_info (lines 247-274).  Brand and
\* type are compared in lower case, an identifier with the text as given.
ContextFactors(reg, text) ==
    [brand_mentioned |->
        \E i \in 1..Len(reg) :
            reg[i].brand # <<>> /\ Contains(Lower(text), Lower(reg[i].brand)),
     product_type_mentioned |->
        \E i \in 1..Len(reg) :
            reg[i].type # <<>> /\ Contains(Lower(text), Lower(reg[i].type)),
     identifier_mentioned |->
        \E i \in 1..Len(reg) : \E k \in 1..Len(reg[i].identifiers) :
            reg[i].identifiers[k] # <<>> /\ Contains(text, reg[i].identifiers[k])]

CreateMatchInfo(reg, method, score, text) ==
    [match_method |-> method,
     match_score |-> score,
     alternative_matches |-> GetAlternativeMatches(reg, text),
     context_factors |-> ContextFactors(reg, text)]

\* The result of the fallback branch (lines 113-123).
FallbackInfo ==
    [match_method |-> "fallback",
     match_score |-> Frac(1, 10),
     alternative_matches |-> <<>>,
     context_factors |-> [brand_mentioned |-> FALSE,
                          product_type_mentioned |-> FALSE,
                          identifier_mentioned |-> FALSE]]

\* The stages with stage 2 accepting a score of 0.6 as well.
MatchStagesAcceptingAtThreshold(reg, emb, text) ==
    LET exact == ExactAliasMatch(reg, text, 1)
        fuzzy == FuzzyBrandProductMatch(reg, text)
    IN IF exact.product_id # None /\ Greater(exact.confidence, Frac(8, 10))
       THEN [product_id |-> exact.product_id, logged |-> FALSE,
             info |-> CreateMatchInfo(reg, "exact_alias", exact.confidence, text)]
       ELSE IF fuzzy.product_id # None /\ AtLeast(fuzzy.confidence, Frac(6, 10))
       THEN [product_id |-> fuzzy.product_id, logged |-> FALSE,
             info |-> CreateMatchInfo(reg, "fuzzy_brand_product",
                                      fuzzy.confidence, text)]
       ELSE [product_id |-> None, logged |-> TRUE, info |-> FallbackInfo]

\* The stages of match_product in order; logged tells whether log_unmatched
\* is called.
MatchStages(reg, emb, text) ==
    LET exact == ExactAliasMatch(reg, text, 1)
        fuzzy == FuzzyBrandProductMatch(reg, text)
        semantic == SemanticSimilarityMatch(text)
    IN IF exact.product_id # None /\ Greater(exact.confidence, Frac(8, 10))
       THEN [product_id |-> exact.product_id, logged |-> FALSE,
             info |-> CreateMatchInfo(reg, "exact_alias", exact.confidence, text)]
       ELSE IF fuzzy.product_id # None /\ Greater(fuzzy.confidence, Frac(6, 10))
       THEN [product_id |-> fuzzy.product_id, logged |-> FALSE,
             info |-> CreateMatchInfo(reg, "fuzzy_brand_product",
                                      fuzzy.confidence, text)]
       ELSE IF emb /\ semantic.product_id # None
                   /\ Greater(semantic.confidence, Frac(5, 10))
       THEN [product_id |-> semantic.product_id, logged |-> FALSE,
             info |-> CreateMatchInfo(reg, "semantic_similarity",
                                      semantic.confidence, text)]
       ELSE [product_id |-> None, logged |-> TRUE, info |-> FallbackInfo]

\* log_unmatched: the suggestions of the file ([] when it is absent or does
\* not parse), the new entry appended, the list written back; a failing
\* write is caught.
LogEntry(text, now) ==
    [mention_text |-> text, timestamp |-> now, status |-> "unprocessed"]

\* A log that writes the new entry alone.
LogUnmatchedOverwriting(file, text, now, outcome) ==
    IF outcome = "error_early" THEN file
    ELSE Persist(<<LogEntry(text, now)>>, outcome)

LogUnmatched(file, text, now, outcome) ==
    LET suggestions == IF file.kind = "list" THEN file.data ELSE <<>> IN
    IF outcome = "error_early" THEN file
    ELSE Persist(Append(suggestions, LogEntry(text, now)), outcome)

(***************************************************************************)
(* Values of the variables a specification does not use.                   *)
(***************************************************************************)
\* An entry written by an earlier run.
PriorEntry == LogEntry(<<"b">>, 0)
InitialLogs == {Absent, Corrupt, ListOf(<<>>), ListOf(<<PriorEntry>>)}

NoMatch == [op |-> "init", text |-> <<>>, outcome |-> "ok", product_id |-> None,
            info |-> FallbackInfo, logged |-> FALSE, prelog |-> Absent]

MatcherIdle ==
    /\ registry = <<>>
    /\ embeddings = FALSE
    /\ log = Absent
    /\ calls = 0
    /\ mlast = NoMatch

NoCall == [op |-> "none"]

ComponentsIdle ==
    /\ alast = NoCall
    /\ plast = NoCall

(***************************************************************************)
(* The storage state machine.                                              *)
(***************************************************************************)
NoAtom == [atom_id |-> <<>>, product_id |-> <<>>, source |-> ""]

NoOp == [op |-> "none", atom |-> NoAtom, key |-> <<>>, flags |-> NoFlags,
         attempted |-> {}, raised |-> FALSE, ret |-> <<>>]

NoWriters == <<>>

\* __init__ creates the three directories and no file.
InitStorage ==
    /\ MatcherIdle
    /\ ComponentsIdle
    /\ writers = NoWriters
    /\ fs = [p \in Paths |-> Absent]
    /\ nextId = 0
    /\ stored = <<>>
    /\ failures = 0
    /\ last = [NoOp EXCEPT !.op = "init"] @@ [pre |-> [p \in Paths |-> Absent]]

NumErrors(outs) == Cardinality({i \in 1..Len(outs) : outs[i] # "ok"})

\* store_all(trust_atom) for a fresh atom.
StoreAll(pid, src, outs) ==
    /\ nextId < MaxAtoms
    /\ failures + NumErrors(outs) <= MaxFailures
    /\ LET atom == MkAtom(nextId + 1, pid, src)
           r    == StoreAllResult(fs, atom, outs)
       IN /\ fs' = r.fs
          /\ nextId' = nextId + 1
          /\ stored' = Append(stored, atom)
          /\ failures' = failures + Cardinality({d \in r.attempted : ~r.flags[d]})
          /\ last' = [op |-> "store_all", atom |-> atom, key |-> <<>>,
                      flags |-> r.flags, attempted |-> r.attempted,
                      raised |-> r.raised, ret |-> <<>>, pre |-> fs]
          /\ UNCHANGED writers
          /\ UNCHANGED <<matcherVars, componentVars>>

\* store_by_category / store_by_source / store_as_trust_atom for a fresh atom.
StoreOne(dest, pid, src, outcome) ==
    /\ nextId < MaxAtoms
    /\ failures + NumErrors(<<outcome>>) <= MaxFailures
    /\ LET atom == MkAtom(nextId + 1, pid, src)
           path == DestPath(dest, atom)
           r    == StoreInFile(fs[path], atom, outcome)
       IN /\ fs' = [fs EXCEPT ![path] = r.content]
          /\ nextId' = nextId + 1
          /\ stored' = Append(stored, atom)
          /\ failures' = failures + (IF r.ok THEN 0 ELSE 1)
          /\ last' = [op |-> dest, atom |-> atom, key |-> <<>>,
                      flags |-> [NoFlags EXCEPT ![dest] = r.ok],
                      attempted |-> {dest}, raised |-> r.raised,
                      ret |-> <<>>, pre |-> fs]
          /\ UNCHANGED writers
          /\ UNCHANGED <<matcherVars, componentVars>>

StoreByCategory(pid, src, outcome)  == StoreOne("category", pid, src, outcome)
StoreBySource(pid, src, outcome)    == StoreOne("source", pid, src, outcome)
StoreAsTrustAtom(pid, src, outcome) == StoreOne("trust_atom", pid, src, outcome)

Retrieved(opname, key, result) ==
    /\ last' = [NoOp EXCEPT !.op = opname, !.key = key, !.ret = result]
               @@ [pre |-> fs]
    /\ UNCHANGED <<fs, nextId, stored, failures, writers>>
    /\ UNCHANGED <<matcherVars, componentVars>>

GetByProduct(product_id, order) ==
    Retrieved("get_by_product", product_id,
              GetTrustAtomsByProduct(fs, product_id, order))

GetBySource(source) ==
    Retrieved("get_by_source", source, GetTrustAtomsBySource(fs, source))

GetByCategory(category) ==
    Retrieved("get_by_category", category, GetTrustAtomsByCategory(fs, category))

ProductRetrievals ==
    \E p \in QueryPids, order \in Perms(ExistingCategories(fs)) :
        GetByProduct(p, order)

OtherRetrievals ==
    \/ \E s \in Sources : GetBySource(s)
    \/ \E c \in Categories : GetByCategory(c)

StoreAlls ==
    \E pid \in StorePids, src \in Sources, outs \in [1..3 -> Outcomes] :
        StoreAll(pid, src, outs)

SingleStores ==
    \E pid \in StorePids, src \in Sources, outcome \in Outcomes :
        \/ StoreByCategory(pid, src, outcome)
        \/ StoreBySource(pid, src, outcome)
        \/ StoreAsTrustAtom(pid, src, outcome)

\* Fan-out storage: sequences of store_all calls and retrievals by product.
NextFanOut == StoreAlls \/ ProductRetrievals
SpecFanOut == InitStorage /\ [][NextFanOut]_vars

\* Every storage operation.
NextStorage == StoreAlls \/ SingleStores \/ ProductRetrievals \/ OtherRetrievals
SpecStorage == InitStorage /\ [][NextStorage]_vars

(***************************************************************************)
(* Two callers inside _store_in_file at once.  The method holds no lock:   *)
(* the load (lines 125-128), the append (line 131) and the persist (lines  *)
(* 134-135) of one call are separate steps that another call's steps may   *)
(* come between.                                                           *)
(***************************************************************************)
WriterIds == {1, 2}
Other(w) == 3 - w

\* The collections the two calls may address.
WriterPaths == {SourcePath("reddit"), ProductPath(PidSerum)}

\* An atom stored before the two calls start.
Atom0 == MkAtom(0, PidSerum, "reddit")
WriterAtom(w) == MkAtom(w, PidSerum, "reddit")

InitConcurrent ==
    /\ \E c \in {Absent, ListOf(<<Atom0>>)} :
          fs = [p \in Paths |-> IF p \in WriterPaths THEN c ELSE Absent]
    /\ \E targets \in [WriterIds -> WriterPaths] :
          writers = [w \in WriterIds |->
                        [pc |-> "load", path |-> targets[w], atom |-> WriterAtom(w),
                         existing_data |-> <<>>, ret |-> FALSE,
                         afterOther |-> FALSE]]
    /\ nextId = 0
    /\ stored = <<>>
    /\ failures = 0
    /\ last = [NoOp EXCEPT !.op = "init"] @@ [pre |-> fs]
    /\ MatcherIdle
    /\ ComponentsIdle

\* Lines 125-128.  afterOther records whether the other call had already
\* returned when this one read the file.
WriterLoad(w) ==
    /\ writers[w].pc = "load"
    /\ LET loaded == LoadExisting(fs[writers[w].path]) IN
       writers' = [writers EXCEPT
           ![w].pc = IF loaded.ok THEN "append" ELSE "done",
           ![w].existing_data = loaded.data,
           ![w].afterOther = (writers[Other(w)].pc = "done")]
    /\ UNCHANGED storageVars
    /\ UNCHANGED <<matcherVars, componentVars>>

\* Line 131.
WriterAppend(w) ==
    /\ writers[w].pc = "append"
    /\ writers' = [writers EXCEPT
           ![w].pc = "persist",
           ![w].existing_data = Append(@, writers[w].atom)]
    /\ UNCHANGED storageVars
    /\ UNCHANGED <<matcherVars, componentVars>>

\* Lines 134-138, or the except branch when the write raises.
WriterPersist(w, outcome) ==
    /\ writers[w].pc = "persist"
    /\ fs' = IF outcome = "error_early" THEN fs
             ELSE [fs EXCEPT ![writers[w].path] =
                                 Persist(writers[w].existing_data, outcome)]
    /\ writers' = [writers EXCEPT ![w].pc = "done", ![w].ret = (outcome = "ok")]
    /\ UNCHANGED <<nextId, stored, failures, last>>
    /\ UNCHANGED <<matcherVars, componentVars>>

NextConcurrent ==
    \E w \in WriterIds :
        \/ WriterLoad(w)
        \/ WriterAppend(w)
        \/ \E outcome \in Outcomes : WriterPersist(w, outcome)

SpecConcurrent == InitConcurrent /\ [][NextConcurrent]_vars

(***************************************************************************)
(* The matcher state machine.                                              *)
(***************************************************************************)
\* ProductMatcher.__init__: the registry and the embeddings are loaded, the
\* log file is whatever earlier runs left.
InitMatcher ==
    /\ \E file \in RegistryFiles : registry = LoadProductRegistry(file)
    /\ embeddings \in BOOLEAN
    /\ log \in InitialLogs
    /\ calls = 0
    /\ mlast = [NoMatch EXCEPT !.prelog = log]
    /\ ComponentsIdle
    /\ writers = NoWriters
    /\ fs = [p \in Paths |-> Absent]
    /\ nextId = 0
    /\ stored = <<>>
    /\ failures = 0
    /\ last = [NoOp EXCEPT !.op = "init"] @@ [pre |-> fs]

\* match_product(text).  When the call reaches log_unmatched, outcome is
\* what the environment does to the write of the log file.
MatchProduct(text) ==
    /\ calls < MaxCalls
    /\ \E r \in {MatchStages(registry, embeddings, text)} :
       \E outcome \in (IF r.logged THEN Outcomes ELSE {"ok"}) :
           /\ log' = IF r.logged THEN LogUnmatched(log, text, calls + 1, outcome)
                     ELSE log
           /\ mlast' = [op |-> "match_product", text |-> text, outcome |-> outcome,
                        product_id |-> r.product_id, info |-> r.info,
                        logged |-> r.logged, prelog |-> log]
    /\ calls' = calls + 1
    /\ UNCHANGED <<registry, embeddings>>
    /\ UNCHANGED <<fs, nextId, stored, failures, last, writers, componentVars>>

\* A longer text: close enough to the name "bab" for a boosted score above 1.
LongTexts == {<<"b","a","a","b">>}

NextMatcher == \E text \in Texts \cup LongTexts : MatchProduct(text)

SpecMatcher == InitMatcher /\ [][NextMatcher]_vars

(***************************************************************************)
(* Properties of storage.                                                  *)
(***************************************************************************)
Occurrences(seq, a) == Cardinality({i \in 1..Len(seq) : seq[i] = a})

IsPrefix(s, t) == Len(s) <= Len(t) /\ \A i \in 1..Len(s) : s[i] = t[i]

\* The atoms handed to a store operation so far that carry product id p.
StoredFor(p) == SelectSeq(stored, LAMBDA a : a.product_id = p)

AllWritesSucceeded == failures = 0

AtomsUnder(paths) == UNION {Range(fs[p].data) : p \in paths}

C2_IndexesConsistent ==
    AllWritesSucceeded =>
        /\ \A i \in 1..Len(stored) :
             LET a == stored[i] IN
             /\ \A c \in Categories :
                  Occurrences(fs[CategoryPath(c)].data, a)
                      = IF c = GetCategory(a.product_id) THEN 1 ELSE 0
             /\ \A s \in Sources :
                  Occurrences(fs[SourcePath(s)].data, a)
                      = IF s = a.source THEN 1 ELSE 0
             /\ \A p \in QueryPids :
                  Occurrences(fs[ProductPath(p)].data, a)
                      = IF p = a.product_id THEN 1 ELSE 0
        /\ AtomsUnder({CategoryPath(c) : c \in Categories}) = Range(stored)
        /\ AtomsUnder({SourcePath(s) : s \in Sources}) = Range(stored)
        /\ AtomsUnder({ProductPath(p) : p \in QueryPids}) = Range(stored)

\* Two atoms of different categories and different sources are stored.
C2_Witness ==
    /\ last.op = "store_all"
    /\ AllWritesSucceeded
    /\ Len(stored) = 2
    /\ GetCategory(stored[1].product_id) # GetCategory(stored[2].product_id)
    /\ stored[1].source # stored[2].source

\* The file post is the file pre with the atom appended at its end.
Appended(pre, post, atom) ==
    /\ pre.kind # "corrupt"
    /\ post.kind = "list"
    /\ post.data = Append(pre.data, atom)

StoreOps == {"store_all", "category", "source", "trust_atom"}
RetrievalOps == {"get_by_product", "get_by_source", "get_by_category"}

\* C3: storage is append-only.  A store that returns True extends its target
\* collection by the new atom at the end and leaves the other collections
\* unchanged; a retrieval changes no collection; and no operation alters,
\* reorders or removes an atom stored before.
C3_AppendOnly ==
    /\ last.op \in StoreOps =>
         LET targets == {DestPath(d, last.atom) : d \in last.attempted}
             written == {DestPath(d, last.atom) :
                             d \in {e \in last.attempted : last.flags[e]}}
         IN /\ \A p \in written : Appended(last.pre[p], fs[p], last.atom)
            /\ \A p \in Paths \ targets : fs[p] = last.pre[p]
    /\ last.op \in RetrievalOps => fs = last.pre
    /\ last.op \in StoreOps \cup RetrievalOps =>
         \A p \in Paths :
             last.pre[p].kind = "list" =>
                 /\ fs[p].kind = "list"
                 /\ IsPrefix(last.pre[p].data, fs[p].data)

\* C4: two calls of _store_in_file on one collection that both returned
\* True leave both atoms in it exactly when the calls were serialized (one
\* read the file after the other had returned); otherwise the collection
\* holds the earlier content and only one of the two atoms.
BothReturnedTrue ==
    /\ writers # NoWriters
    /\ \A w \in WriterIds : writers[w].pc = "done" /\ writers[w].ret
    /\ writers[1].path = writers[2].path

Serialized == \E w \in WriterIds : writers[w].afterOther

C4_LostUpdateUnlessSerialized ==
    BothReturnedTrue =>
        LET file == fs[writers[1].path]
            held == {w \in WriterIds : Occurrences(file.data, writers[w].atom) = 1}
        IN /\ file.kind = "list"
           /\ Serialized <=> held = WriterIds
           /\ ~Serialized => Cardinality(held) = 1

\* A lost update: both calls returned True, one atom is missing.
C4_Witness ==
    /\ BothReturnedTrue
    /\ ~Serialized
    /\ \E w \in WriterIds :
          Occurrences(fs[writers[1].path].data, writers[w].atom) = 0

\* C5: store_all does not raise, attempts the three destinations whatever the
\* earlier ones returned, and its flag for a destination is True exactly when
\* the atom was appended to that destination's collection.
C5_FlagsReportFanOut ==
    last.op = "store_all" =>
        /\ ~last.raised
        /\ last.attempted = Range(Dests)
        /\ \A d \in Range(Dests) :
             last.flags[d] <=>
                 Appended(last.pre[DestPath(d, last.atom)],
                          fs[DestPath(d, last.atom)], last.atom)

\* A partial fan-out: the category write succeeded, a later one failed.
C5_Witness ==
    /\ last.op = "store_all"
    /\ last.flags["category"]
    /\ ~last.flags["source"]
    /\ last.flags["trust_atom"]

(***************************************************************************)
(* Properties of the matcher.                                              *)
(***************************************************************************)
Matched == mlast.op = "match_product"

\* The canonical name of the product is in the text, case ignored.
CanonicalNameIn(product, text) ==
    /\ product.canonical_name # <<>>
    /\ Contains(Lower(text), Lower(product.canonical_name))

\* The canonical name or an alias of the product is in the text.
NamedIn(product, text) ==
    \/ CanonicalNameIn(product, text)
    \/ \E k \in 1..Len(product.aliases) :
          Contains(Lower(text), Lower(product.aliases[k]))

\* C6 as stated: a text that contains the canonical name of a registered
\* product p is matched to p, by "exact_alias", with score >= 0.9.
C6_CanonicalNameMatchesItsProduct ==
    Matched =>
        \A i \in 1..Len(registry) :
            CanonicalNameIn(registry[i], mlast.text) =>
                /\ mlast.product_id = registry[i].product_id
                /\ mlast.info.match_method = "exact_alias"
                /\ AtLeast(mlast.info.match_score, Frac(9, 10))

\* C6, amended: a text that contains the canonical name of a registered
\* product p is matched by "exact_alias" with score >= 0.9 to the first
\* product in registry order whose canonical name or alias is in the text;
\* that is p, with score 0.95, when no product before p is named in the text.
C6_CanonicalNameMatchesFirstNamedProduct ==
    Matched =>
        \A i \in 1..Len(registry) :
            CanonicalNameIn(registry[i], mlast.text) =>
                LET first == CHOOSE j \in 1..i :
                                 /\ NamedIn(registry[j], mlast.text)
                                 /\ \A k \in 1..(j - 1) : ~NamedIn(registry[k], mlast.text)
                IN /\ mlast.product_id = registry[first].product_id
                   /\ mlast.info.match_method = "exact_alias"
                   /\ AtLeast(mlast.info.match_score, Frac(9, 10))
                   /\ first = i => mlast.info.match_score = Frac(95, 100)

\* The second product of the registry is matched by its canonical name.
C6_Witness ==
    /\ Matched
    /\ Len(registry) = 2
    /\ CanonicalNameIn(registry[2], mlast.text)
    /\ mlast.product_id = registry[2].product_id
    /\ mlast.info.match_score = Frac(95, 100)

\* No stage of match_product accepts the text.
NoStageAccepts ==
    /\ ExactAliasMatch(registry, mlast.text, 1).product_id = None
    /\ LET fuzzy == FuzzyBrandProductMatch(registry, mlast.text)
       IN ~(fuzzy.product_id # None /\ Greater(fuzzy.confidence, Frac(6, 10)))

\* The entries of the log file as a reader gets them.
LogEntries(file) == IF file.kind = "list" THEN file.data ELSE <<>>

IsFallbackResult ==
    /\ mlast.product_id = None
    /\ mlast.info.match_score = Frac(1, 10)
    /\ mlast.info.match_method = "fallback"
    /\ mlast.info.alternative_matches = <<>>

GrewByTheMention ==
    /\ Len(LogEntries(log)) = Len(LogEntries(mlast.prelog)) + 1
    /\ LET e == LogEntries(log)[Len(LogEntries(log))]
       IN e.mention_text = mlast.text /\ e.status = "unprocessed"

C8_FirstQualifyingStageWins ==
    Matched =>
        LET exact == ExactAliasMatch(registry, mlast.text, 1)
            fuzzy == FuzzyBrandProductMatch(registry, mlast.text)
            fuzzyQualifies == fuzzy.product_id # None
                              /\ Greater(fuzzy.confidence, Frac(6, 10))
        IN /\ mlast.info.match_method
                  \in {"exact_alias", "fuzzy_brand_product", "fallback"}
           /\ exact.product_id # None =>
                  /\ mlast.info.match_method = "exact_alias"
                  /\ mlast.product_id = exact.product_id
                  /\ mlast.info.match_score \in {Frac(90, 100), Frac(95, 100)}
           /\ mlast.info.match_method = "exact_alias" => exact.product_id # None
           /\ mlast.info.match_method = "fuzzy_brand_product" =>
                  /\ exact.product_id = None
                  /\ fuzzyQualifies
                  /\ mlast.product_id = fuzzy.product_id
                  /\ mlast.info.match_score = fuzzy.confidence
           /\ mlast.info.match_method = "fallback" =>
                  exact.product_id = None /\ ~fuzzyQualifies
           /\ fuzzy.confidence = Frac(6, 10) =>
                  mlast.info.match_method # "fuzzy_brand_product"

\* The fuzzy stage scores exactly 0.6 and the call falls back.
C8_Witness ==
    /\ Matched
    /\ ExactAliasMatch(registry, mlast.text, 1).product_id = None
    /\ FuzzyBrandProductMatch(registry, mlast.text).product_id # None
    /\ FuzzyBrandProductMatch(registry, mlast.text).confidence = Frac(6, 10)
    /\ mlast.info.match_method = "fallback"

\* C9: in every result, accepted or fallback, brand_mentioned tells whether
\* the brand of some product occurs in the text, product_type_mentioned
\* whether the type of some product does, identifier_mentioned whether an
\* identifier value of some product does.
C9_ContextFactorsFromText ==
    Matched =>
        /\ mlast.info.context_factors.brand_mentioned <=>
              \E i \in 1..Len(registry) :
                  /\ registry[i].brand # <<>>
                  /\ Contains(Lower(mlast.text), Lower(registry[i].brand))
        /\ mlast.info.context_factors.product_type_mentioned <=>
              \E i \in 1..Len(registry) :
                  /\ registry[i].type # <<>>
                  /\ Contains(Lower(mlast.text), Lower(registry[i].type))
        /\ mlast.info.context_factors.identifier_mentioned <=>
              \E i \in 1..Len(registry) :
                  \E k \in 1..Len(registry[i].identifiers) :
                      /\ registry[i].identifiers[k] # <<>>
                      /\ Contains(mlast.text, registry[i].identifiers[k])

\* C10: an accepted result has at most 3 alternative matches, sorted by
\* score from high to low, none of them the winning product.
C10_AlternativesExcludeWinner ==
    (Matched /\ mlast.info.match_method \in {"exact_alias", "fuzzy_brand_product"}) =>
        LET alts == mlast.info.alternative_matches IN
        /\ Len(alts) <= 3
        /\ \A k \in 1..(Len(alts) - 1) : AtLeast(alts[k].score, alts[k + 1].score)
        /\ \A k \in 1..Len(alts) : alts[k].product_id # mlast.product_id

\* C17: the unresolved-mention log is append-only.  Every match_product
\* call, whatever the log file held before it (nothing, a list, or text that
\* does not parse), leaves the entries logged before it in place and in
\* order and adds at most one entry at the end.
C17_LogAppendOnly ==
    Matched =>
        /\ IsPrefix(LogEntries(mlast.prelog), LogEntries(log))
        /\ Len(LogEntries(log)) <= Len(LogEntries(mlast.prelog)) + 1

(***************************************************************************)
(* content_analyzer.py: ContentAnalyzer                                    *)
(***************************************************************************)
\* Character classes: \s of the regular expressions and of str.split(), and
\* the sentence terminators of the class [.!?].
Spaces == {" ", "\n"}
Terminators == {".", "!", "?"}

\* len(text.split()): the number of maximal runs of non-blank characters.
WordCount(text) ==
    Cardinality({i \in 1..Len(text) :
                    text[i] \notin Spaces /\ (i = 1 \/ text[i - 1] \in Spaces)})

\* The end of the run of characters of a class that starts at i: the first
\* index from i on whose character is outside the class.
RunEnd(text, i, class) ==
    CHOOSE j \in i..(Len(text) + 1) :
        /\ \A k \in i..(j - 1) : text[k] \in class
        /\ j = Len(text) + 1 \/ text[j] \notin class

\* re.split(r'[.!?]+\s+', text): the text is cut at every run of
\* terminators that blanks follow; terminators with no blank after them stay
\* in the piece.
RECURSIVE SplitSentences(_, _, _, _)
SplitSentences(text, i, cur, acc) ==
    IF i > Len(text) THEN Append(acc, cur)
    ELSE IF text[i] \in Terminators
    THEN LET j == RunEnd(text, i, Terminators)
             k == RunEnd(text, j, Spaces)
         IN IF k > j THEN SplitSentences(text, k, <<>>, Append(acc, cur))
            ELSE SplitSentences(text, j, cur \o SubSeq(text, i, j - 1), acc)
    ELSE SplitSentences(text, i + 1, Append(cur, text[i]), acc)

\* A sentence of at most this many words is dropped (line 197).
ShortSentenceWords == 3

\* The loop of _rule_based_summary (lines 209-218): a later sentence is added
\* when the words so far plus its words stay within max_length.
RECURSIVE Accumulate(_, _, _, _, _)
Accumulate(sentences, sentence_index, summary, nwords, max_length) ==
    IF nwords < max_length /\ sentence_index <= Len(sentences)
    THEN LET next_sentence == sentences[sentence_index]
             n == WordCount(next_sentence)
         IN IF nwords + n <= max_length
            THEN Accumulate(sentences, sentence_index + 1,
                            summary \o <<".", " ">> \o next_sentence,
                            nwords + n, max_length)
            ELSE Accumulate(sentences, sentence_index + 1, summary, nwords,
                            max_length)
    ELSE summary

\* _rule_based_summary: the text itself when no sentence has more than three
\* words, else the first such sentence and what the loop adds to it.
RuleBasedSummary(text, max_length) ==
    LET sentences == SelectSeq(SplitSentences(text, 1, <<>>, <<>>),
                               LAMBDA s : WordCount(s) > ShortSentenceWords)
    IN IF sentences = <<>> THEN text
       ELSE Accumulate(sentences, 2, sentences[1], WordCount(sentences[1]),
                       max_length)

\* The summarizer of __init__: None ("absent"), a model whose call raises
\* ("fails"), or a model that answers ("works") with model_output.
Summarizers == {"absent", "fails", "works"}

\* generate_summary(text, max_length).
GenerateSummary(text, max_length, summarizer, model_output) ==
    IF WordCount(text) <= max_length THEN text
    ELSE IF summarizer = "works" THEN model_output
    ELSE RuleBasedSummary(text, max_length)

\* The base score and the cap of calculate_authenticity, in tenths.
BaseScore == 5
MinScore == 1
MaxScore == 10

Max2(x, y) == IF x >= y THEN x ELSE y
Min2(x, y) == IF x <= y THEN x ELSE y

SrcReddit  == <<"r","e","d","d","i","t">>
SrcYoutube == <<"y","o","u","t","u","b","e">>

\* A score that grows with the votes and is not capped.
CalculateAuthenticityByVotes(feedback) ==
    BaseScore + feedback.score \div 10

\* calculate_authenticity(feedback), in tenths.  Every term is a multiple of
\* 0.1 and the sum has at most five terms, so the cap at lines 270-271 decides
\* the range whatever the rounding of the float additions.
CalculateAuthenticity(feedback) ==
    LET source == Lower(feedback.source)
        votes ==
            IF source = SrcReddit
            THEN (IF feedback.score > 10 THEN 1
                  ELSE IF feedback.score > 50 THEN 2 ELSE 0)
            ELSE IF source = SrcYoutube
            THEN (IF feedback.score > 5 THEN 1
                  ELSE IF feedback.score > 20 THEN 2 ELSE 0)
            ELSE 0
        age == IF source = SrcReddit /\ feedback.account_age_days > 365
               THEN 1 ELSE 0
        verified == IF feedback.verified_purchase THEN 2 ELSE 0
        text_length == WordCount(feedback.text)
        length == IF text_length < 5 THEN -1
                  ELSE IF text_length > 30 THEN 1 ELSE 0
    IN Max2(MinScore, Min2(BaseScore + votes + age + verified + length, MaxScore))

\* The keyword lists of analyze_sentiment (lines 87-90, 115).
PositiveKeywords ==
    <<<<"l","o","v","e">>,
      <<"g","r","e","a","t">>,
      <<"e","x","c","e","l","l","e","n","t">>,
      <<"a","m","a","z","i","n","g">>,
      <<"p","e","r","f","e","c","t">>,
      <<"r","e","c","o","m","m","e","n","d">>,
      <<"a","w","e","s","o","m","e">>,
      <<"f","a","n","t","a","s","t","i","c">>,
      <<"w","o","n","d","e","r","f","u","l">>,
      <<"b","e","s","t">>,
      <<"f","a","v","o","r","i","t","e">>,
      <<"w","o","r","t","h">>>>
NegativeKeywords ==
    <<<<"h","a","t","e">>,
      <<"t","e","r","r","i","b","l","e">>,
      <<"a","w","f","u","l">>,
      <<"d","i","s","a","p","p","o","i","n","t","i","n","g">>,
      <<"w","a","s","t","e">>,
      <<"a","v","o","i","d">>,
      <<"b","a","d">>,
      <<"w","o","r","s","t">>,
      <<"h","o","r","r","i","b","l","e">>,
      <<"u","s","e","l","e","s","s">>,
      <<"r","e","g","r","e","t">>,
      <<"r","e","t","u","r","n">>>>
NeutralKeywords ==
    <<<<"o","k","a","y">>,
      <<"o","k">>,
      <<"f","i","n","e">>,
      <<"a","v","e","r","a","g","e">>,
      <<"d","e","c","e","n","t">>,
      <<"a","l","r","i","g","h","t">>,
      <<"s","o","-","s","o">>>>

\* A count in which a keyword occurring k times contributes k.
KeywordCountOccurrences(keywords, text_lower) ==
    LET at(w) == {i \in 1..Len(text_lower) :
                     /\ i + Len(w) - 1 <= Len(text_lower)
                     /\ SubSeq(text_lower, i, i + Len(w) - 1) = w}
        sum[i \in 0..Len(keywords)] ==
            IF i = 0 THEN 0 ELSE sum[i - 1] + Cardinality(at(keywords[i]))
    IN sum[Len(keywords)]

\* sum(1 for word in keywords if word in text_lower): the keywords that
\* occur, each counted once.
KeywordCount(keywords, text_lower) ==
    Cardinality({i \in 1..Len(keywords) : Contains(text_lower, keywords[i])})

\* A confidence that grows with the count without the cap at 0.9.
OneSidedConfidenceUncapped(count) == Frac(5 + count, 10)

\* The confidence of a one-sided text (lines 100, 103).
OneSidedConfidence(count) == FracMin(Frac(5 + count, 10), Frac(9, 10))

\* A sentiment that calls a text with one keyword of each side "balanced".
AnalyzeSentimentBalanced(text) ==
    LET text_lower == Lower(text)
        positive_count == KeywordCount(PositiveKeywords, text_lower)
        negative_count == KeywordCount(NegativeKeywords, text_lower)
    IN IF positive_count > 0 /\ negative_count = 0
       THEN [label |-> "positive", confidence |-> OneSidedConfidence(positive_count)]
       ELSE IF negative_count > 0 /\ positive_count = 0
       THEN [label |-> "negative", confidence |-> OneSidedConfidence(negative_count)]
       ELSE IF positive_count > 0 /\ negative_count > 0
       THEN (IF positive_count # negative_count
             THEN [label |-> "mixed", confidence |-> Frac(7, 10)]
             ELSE [label |-> "balanced", confidence |-> Frac(6, 10)])
       ELSE IF KeywordCount(NeutralKeywords, text_lower) > 0
       THEN [label |-> "neutral", confidence |-> Frac(7, 10)]
       ELSE [label |-> "neutral", confidence |-> Frac(5, 10)]

\* analyze_sentiment(text).
AnalyzeSentiment(text) ==
    LET text_lower == Lower(text)
        positive_count == KeywordCount(PositiveKeywords, text_lower)
        negative_count == KeywordCount(NegativeKeywords, text_lower)
    IN IF positive_count > 0 /\ negative_count = 0
       THEN [label |-> "positive", confidence |-> OneSidedConfidence(positive_count)]
       ELSE IF negative_count > 0 /\ positive_count = 0
       THEN [label |-> "negative", confidence |-> OneSidedConfidence(negative_count)]
       ELSE IF positive_count > 0 /\ negative_count > 0
       THEN (IF positive_count # negative_count
             THEN [label |-> "mixed", confidence |-> Frac(7, 10)]
             ELSE [label |-> "mixed", confidence |-> Frac(6, 10)])
       ELSE IF KeywordCount(NeutralKeywords, text_lower) > 0
       THEN [label |-> "neutral", confidence |-> Frac(7, 10)]
       ELSE [label |-> "neutral", confidence |-> Frac(5, 10)]

(***************************************************************************)
(* The component functions applied to bounded inputs.                      *)
(***************************************************************************)
\* ' '.join(tokens)
RECURSIVE Join(_, _)
Join(tokens, i) ==
    IF i > Len(tokens) THEN <<>>
    ELSE tokens[i] \o (IF i < Len(tokens) THEN <<" ">> ELSE <<>>)
                   \o Join(tokens, i + 1)

TextsOf(tokens, n) == {Join(ws, 1) : ws \in UNION {[1..k -> tokens] : k \in 0..n}}

\* The texts handed to generate_summary: words, some of them ending a
\* sentence, with one blank between them.
SummaryTokens == {<<"w">>, <<"w", ".">>}
SummaryTexts == TextsOf(SummaryTokens, MaxWords)

\* n words with one blank between them.
Words(n) == [i \in 1..(2 * n - 1) |-> IF i % 2 = 1 THEN "w" ELSE " "]

\* The feedback envelopes handed to calculate_authenticity.  A missing
\* source is "", a missing score or account age 0, a missing flag False, a
\* missing text "" (the defaults of feedback.get).
Huge == 1000000000
AuthSources == {SrcReddit, <<"R","e","d","d","i","t">>, SrcYoutube,
                <<"a","m","a","z","o","n">>, <<>>}
AuthScores == {-Huge, -1, 0, 5, 6, 10, 11, 20, 21, 50, 51, 100, Huge}
AuthAges == {0, 365, 366}
AuthTexts == {Words(n) : n \in {0, 4, 5, 30, 31}}
Feedbacks ==
    [source : AuthSources, score : AuthScores, account_age_days : AuthAges,
     verified_purchase : BOOLEAN, text : AuthTexts]

\* The texts handed to analyze_sentiment.
SentimentTokens ==
    {<<"l","o","v","e">>, <<"G","r","e","a","t">>, <<"h","a","t","e">>,
     <<"b","a","d">>, <<"o","k","a","y">>, <<"s","k","i","n">>}
\* A text with five positive keywords and one with a keyword inside a word.
ManyKeywords ==
    Join(<<<<"l","o","v","e">>, <<"b","e","s","t">>, <<"g","r","e","a","t">>,
           <<"w","o","r","t","h">>, <<"p","e","r","f","e","c","t">>>>, 1)
SentimentTexts ==
    TextsOf(SentimentTokens, MaxSentimentWords)
    \cup {ManyKeywords, <<"g","l","o","v","e","s">>}

StorageIdle ==
    /\ writers = NoWriters
    /\ fs = [p \in Paths |-> Absent]
    /\ nextId = 0
    /\ stored = <<>>
    /\ failures = 0
    /\ last = [NoOp EXCEPT !.op = "init"] @@ [pre |-> [p \in Paths |-> Absent]]

Input(fn, args) == [op |-> "input", fn |-> fn] @@ args
Pending(fn) == alast.op = "input" /\ alast.fn = fn
Done(fn) == alast.op = "done" /\ alast.fn = fn

InitAnalyzer ==
    /\ StorageIdle
    /\ MatcherIdle
    /\ plast = NoCall
    /\ \/ \E text \in SummaryTexts, max_length \in 1..MaxWords,
             summarizer \in Summarizers :
             alast = Input("generate_summary",
                           [text |-> text, max_length |-> max_length,
                            summarizer |-> summarizer])
       \/ \E feedback \in Feedbacks :
             alast = Input("calculate_authenticity", [feedback |-> feedback])
       \/ \E text \in SentimentTexts :
             alast = Input("analyze_sentiment", [text |-> text])

\* What a working summarization model may answer.
ModelOutputs(text) == {<<>>, <<"w">>, text}

GenerateSummaryCall ==
    /\ Pending("generate_summary")
    /\ \E model_output \in (IF alast.summarizer = "works"
                            THEN ModelOutputs(alast.text) ELSE {<<>>}) :
          alast' = [alast EXCEPT !.op = "done"] @@
                   [result |-> GenerateSummary(alast.text, alast.max_length,
                                               alast.summarizer, model_output)]
    /\ UNCHANGED <<storageVars, writers, matcherVars, plast>>

CalculateAuthenticityCall ==
    /\ Pending("calculate_authenticity")
    /\ alast' = [alast EXCEPT !.op = "done"] @@
                [result |-> CalculateAuthenticity(alast.feedback)]
    /\ UNCHANGED <<storageVars, writers, matcherVars, plast>>

\* Two calls of analyze_sentiment on the same text, one after the other.
AnalyzeSentimentCall ==
    /\ Pending("analyze_sentiment")
    /\ alast' = [alast EXCEPT !.op = "done"] @@
                [result |-> AnalyzeSentiment(alast.text),
                 again  |-> AnalyzeSentiment(alast.text)]
    /\ UNCHANGED <<storageVars, writers, matcherVars, plast>>

NextAnalyzer ==
    GenerateSummaryCall \/ CalculateAuthenticityCall \/ AnalyzeSentimentCall

SpecAnalyzer == InitAnalyzer /\ [][NextAnalyzer]_vars

(***************************************************************************)
(* Properties of the content analyzer.                                     *)
(***************************************************************************)
\* C12: for every text of more than max_length words, with the summarizer
\* absent or failing, generate_summary returns at most max_length words.
C12_SummaryWithinBudget ==
    (/\ Done("generate_summary")
     /\ alast.summarizer # "works"
     /\ WordCount(alast.text) > alast.max_length)
        => WordCount(alast.result) <= alast.max_length

\* The thresholds the claim names: Reddit upvotes 10 / 50, YouTube likes
\* 5 / 20.
LowThreshold(source)  == IF source = SrcReddit THEN 10 ELSE 5
HighThreshold(source) == IF source = SrcReddit THEN 50 ELSE 20

NoOtherBonus(feedback) ==
    /\ ~feedback.verified_purchase
    /\ feedback.account_age_days <= 365
    /\ WordCount(feedback.text) >= 5
    /\ WordCount(feedback.text) <= 30

\* C13: with no other bonus, calculate_authenticity returns 0.5 + 0.2 when
\* the score exceeds the high threshold of the source and 0.5 + 0.1 when it
\* exceeds only the low one; a Reddit feedback with 100 upvotes scores 0.7.
C13_VoteBonusByThreshold ==
    (/\ Done("calculate_authenticity")
     /\ Lower(alast.feedback.source) \in {SrcReddit, SrcYoutube}
     /\ NoOtherBonus(alast.feedback))
        => LET source == Lower(alast.feedback.source)
               score == alast.feedback.score
           IN /\ score > HighThreshold(source) => alast.result = BaseScore + 2
              /\ (score > LowThreshold(source) /\ score <= HighThreshold(source))
                    => alast.result = BaseScore + 1

\* C14: for every feedback envelope calculate_authenticity returns a value
\* in [0.1, 1.0].
C14_AuthenticityInRange ==
    Done("calculate_authenticity")
        => alast.result >= MinScore /\ alast.result <= MaxScore

\* A huge upvote count on an empty text, and a negative count.
C14_Witness ==
    /\ Done("calculate_authenticity")
    /\ alast.feedback.score = Huge
    /\ alast.feedback.text = <<>>
    /\ alast.feedback.verified_purchase
    /\ alast.result = BaseScore + 1 + 2 - 1

SentimentLabels == {"positive", "negative", "neutral", "mixed"}

WordChars ==
    {"a", "b", "c", "d", "e", "f", "g", "h", "i", "j", "k", "l", "m",
     "n", "o", "p", "q", "r", "s", "t", "u", "v", "w", "x", "y", "z",
     "A", "B", "C", "D", "E", "F", "G", "H", "I", "J", "K", "L", "M",
     "N", "O", "P", "Q", "R", "S", "T", "U", "V", "W", "X", "Y", "Z",
     "0", "1", "2", "3", "4", "5", "6", "7", "8", "9", "_"}

\* The first index from i on whose character is in the class: the end of a
\* run of characters outside it.
RunEndOutside(text, i, class) ==
    CHOOSE j \in i..(Len(text) + 1) :
        /\ \A k \in i..(j - 1) : text[k] \notin class
        /\ j = Len(text) + 1 \/ text[j] \in class

StartsAt(text, i, word) ==
    /\ i + Len(word) - 1 <= Len(text)
    /\ \A k \in 1..Len(word) : text[i + k - 1] = word[k]

\* Where a match of https?://\S+ that starts at i ends (the index after
\* it), 0 when there is none: "http", an "s" if one follows, "://" and a
\* non-empty run of non-blank characters.
UrlEnd(text, i) ==
    IF ~StartsAt(text, i, <<"h","t","t","p">>) THEN 0
    ELSE LET q == IF StartsAt(text, i + 4, <<"s">>) THEN i + 5 ELSE i + 4
             e == RunEndOutside(text, q + 3, Spaces)
         IN IF StartsAt(text, q, <<":","/","/">>) /\ q + 3 <= Len(text)
               /\ e > q + 3
            THEN e ELSE 0

\* re.sub(r'https?://\S+', '', text)
RECURSIVE RemoveUrls(_, _)
RemoveUrls(text, i) ==
    IF i > Len(text) THEN <<>>
    ELSE LET e == UrlEnd(text, i)
         IN IF e > 0 THEN RemoveUrls(text, e)
            ELSE <<text[i]>> \o RemoveUrls(text, i + 1)

\* re.sub(r'[^\w\s\']', ' ', text)
BlankSpecials(text) ==
    [i \in 1..Len(text) |->
        IF text[i] \in WordChars \cup Spaces \cup {"'"} THEN text[i] ELSE " "]

\* A collapse that replaces pairs of blanks: re.sub(r'\s\s', ' ', text).
RECURSIVE CollapseWhitespacePairs(_, _)
CollapseWhitespacePairs(text, i) ==
    IF i > Len(text) THEN <<>>
    ELSE IF text[i] \in Spaces /\ i < Len(text) /\ text[i + 1] \in Spaces
    THEN <<" ">> \o CollapseWhitespacePairs(text, i + 2)
    ELSE <<text[i]>> \o CollapseWhitespacePairs(text, i + 1)

\* re.sub(r'\s+', ' ', text)
RECURSIVE CollapseWhitespace(_, _)
CollapseWhitespace(text, i) ==
    IF i > Len(text) THEN <<>>
    ELSE IF text[i] \in Spaces
    THEN <<" ">> \o CollapseWhitespace(text, RunEnd(text, i, Spaces))
    ELSE <<text[i]>> \o CollapseWhitespace(text, i + 1)

\* str.strip()
Strip(text) ==
    LET first == RunEnd(text, 1, Spaces)
        keep == {i \in 1..Len(text) : text[i] \notin Spaces}
        last_kept == CHOOSE i \in keep : \A k \in keep : k <= i
    IN IF keep = {} THEN <<>> ELSE SubSeq(text, first, last_kept)

\* clean_text(text); None and "" are both falsy.
CleanText(text) ==
    IF text = None \/ text = <<>> THEN <<>>
    ELSE Strip(CollapseWhitespace(BlankSpecials(RemoveUrls(text, 1)), 1))

\* The raw texts: pieces of URLs, letters, blanks, apostrophes and
\* punctuation in every order.
RawPieces ==
    {<<"h","t","t","p",":","/","/">>, <<"h","t","t","p","s",":","/","/">>,
     <<"a">>, <<" ">>, <<"\n">>, <<"'">>, <<"!">>, <<":">>, <<".",".",".">>}

RECURSIVE Concat(_, _)
Concat(pieces, i) ==
    IF i > Len(pieces) THEN <<>> ELSE pieces[i] \o Concat(pieces, i + 1)

RawTexts ==
    {None} \cup {Concat(ps, 1) : ps \in UNION {[1..k -> RawPieces] : k \in 0..MaxPieces}}

InitPreprocessor ==
    /\ StorageIdle
    /\ MatcherIdle
    /\ plast = NoCall
    /\ \E text \in RawTexts : alast = Input("clean_text", [text |-> text])

\* clean_text(text), and clean_text of what it returned.
CleanTextCall ==
    /\ Pending("clean_text")
    /\ \E once \in {CleanText(alast.text)} :
          alast' = [alast EXCEPT !.op = "done"] @@
                   [result |-> once, twice |-> CleanText(once)]
    /\ UNCHANGED <<storageVars, writers, matcherVars, plast>>

NextPreprocessor == CleanTextCall

SpecPreprocessor == InitPreprocessor /\ [][NextPreprocessor]_vars

\* C20: clean_text is idempotent: for every input, the empty and the absent
\* one included, cleaning the cleaned text returns the cleaned text.
C20_CleanTextIdempotent ==
    Done("clean_text") => alast.twice = alast.result

\* A text with punctuation before a URL, cleaned to something else than
\* itself and not to the empty text.
C20_Witness ==
    /\ Done("clean_text")
    /\ alast.text # None
    /\ \E i \in 1..Len(alast.text) :
          UrlEnd(alast.text, i) > 0 /\ \E k \in 1..(i - 1) : alast.text[k] = "!"
    /\ alast.result # <<>>
    /\ alast.result # alast.text
    /\ alast.twice = alast.result

(***************************************************************************)
(* trust_atom_creator.py: TrustAtomCreator.create_trust_atom               *)
(***************************************************************************)
\* dict.get(key, default): a dictionary is a record, a missing key a field
\* the record does not have.
Get(dict, key, default) == IF key \in DOMAIN dict THEN dict[key] ELSE default

Plus(x, y) == Frac(x.n * y.d + y.n * x.d, x.d * y.d)

\* datetime.now().isoformat() at the time of the call.
Now == <<"now">>

\* A confidence that weighs match and sentiment alike.
OverallConfidenceEvenWeights(match_score, sentiment_confidence) ==
    Plus(Times(Frac(5, 10), match_score), Times(Frac(5, 10), sentiment_confidence))

\* The weighted average of line 88.
OverallConfidence(match_score, sentiment_confidence) ==
    Plus(Times(Frac(7, 10), match_score), Times(Frac(3, 10), sentiment_confidence))

\* create_trust_atom(feedback, (product_id, match_info), (sentiment_label,
\* sentiment_confidence), tags, summary); suffix is uuid4().hex[:8].  atom_id
\* is the sequence of the pieces of the f-string of line 80.  The metadata and
\* the source-specific data, which nothing reads back, are left out.
CreateTrustAtom(feedback, product_id, match_info, sentiment_label, sentiment_confidence, tags, summary, suffix) ==
    LET pid == IF product_id = None \/ product_id = <<>>
               THEN PidUnknownProduct ELSE product_id
        source == Get(feedback, "source", "unknown")
    IN [atom_id |-> <<source, "_", pid, "_", suffix>>,
        product_id |-> pid,
        source |-> source,
        timestamp |-> Get(feedback, "timestamp", Now),
        feedback_text |-> Get(feedback, "text", <<>>),
        summary_text |-> IF summary # None THEN summary
                         ELSE Get(feedback, "text", <<>>),
        sentiment_label |-> sentiment_label,
        authenticity_score |-> Get(feedback, "authenticity_score", Frac(5, 10)),
        confidence_score |->
            OverallConfidence(Get(match_info, "match_score", Frac(1, 10)),
                              sentiment_confidence),
        tags |-> tags,
        product_match_info |-> match_info]

\* The arguments of create_trust_atom: feedbacks with and without a source
\* and a timestamp, match infos with a score inside and outside [0,1] and
\* without one, sentiment confidences inside and outside [0,1].
GivenTime == <<"2025-06-26T15:30:00Z">>
CreatorFeedbacks ==
    {[text |-> <<"a">>]}
    \cup {[text |-> <<"a">>, source |-> s] : s \in Sources}
    \cup {[text |-> <<"a">>, source |-> s, timestamp |-> t] :
             s \in Sources, t \in {None, GivenTime}}
CreatorScores ==
    {Zero, Frac(1, 10), Frac(61, 100), Frac(9, 10), Frac(95, 100), One,
     Frac(12, 10)}
CreatorMatchInfos ==
    {[match_method |-> "fallback"]}
    \cup {[match_method |-> m, match_score |-> s] :
             m \in {"exact_alias", "fuzzy_brand_product", "fallback"},
             s \in CreatorScores}
CreatorProductIds == {None, <<>>, PidSerum}
CreatorConfidences ==
    {Zero, Frac(5, 10), Frac(6, 10), Frac(7, 10), Frac(9, 10), One, Frac(11, 10)}

InitCreator ==
    /\ StorageIdle
    /\ MatcherIdle
    /\ plast = NoCall
    /\ \E feedback \in CreatorFeedbacks, product_id \in CreatorProductIds,
          match_info \in CreatorMatchInfos,
          sentiment_confidence \in CreatorConfidences, summary \in {None, <<"a">>} :
          alast = Input("create_trust_atom",
                        [feedback |-> feedback, product_id |-> product_id,
                         match_info |-> match_info,
                         sentiment_confidence |-> sentiment_confidence,
                         summary |-> summary])

CreateTrustAtomCall ==
    /\ Pending("create_trust_atom")
    /\ alast' = [alast EXCEPT !.op = "done"] @@
                [result |-> CreateTrustAtom(alast.feedback, alast.product_id,
                                            alast.match_info, "neutral",
                                            alast.sentiment_confidence,
                                            {<<"u","n","k","n","o","w","n">>},
                                            alast.summary, <<0>>)]
    /\ UNCHANGED <<storageVars, writers, matcherVars, plast>>

NextCreator == CreateTrustAtomCall

SpecCreator == InitCreator /\ [][NextCreator]_vars

InUnit(x) == AtLeast(x, Zero) /\ AtLeast(One, x)

\* The match_score of a match info, 0.1 when it carries none.
EmbeddedMatchScore(info) ==
    IF "match_score" \in DOMAIN info THEN info.match_score ELSE Frac(1, 10)

\* C15: the confidence_score of every atom create_trust_atom returns is
\* 0.7 * match_score + 0.3 * sentiment_confidence, match_score being that of
\* the embedded match info (0.1 when it has none); it is in [0,1] whenever
\* both are.
C15_ConfidenceIsWeightedAverage ==
    Done("create_trust_atom") =>
        LET c == alast.result.confidence_score
            m == EmbeddedMatchScore(alast.result.product_match_info)
            s == alast.sentiment_confidence
        IN /\ 10 * c.n * m.d * s.d = c.d * (7 * m.n * s.d + 3 * s.n * m.d)
           /\ (InUnit(m) /\ InUnit(s)) => InUnit(c)

\* An atom made from a match info without a score: 0.7 * 0.1 + 0.3 * 0.9.
C15_Witness ==
    /\ Done("create_trust_atom")
    /\ "match_score" \notin DOMAIN alast.match_info
    /\ alast.sentiment_confidence = Frac(9, 10)
    /\ alast.result.confidence_score = Frac(34, 100)

(***************************************************************************)
(* content_analyzer.py: ContentAnalyzer.extract_tags                       *)
(***************************************************************************)
\* The tag dictionaries of _load_tag_dictionaries, the tag types merged.
SkincareTags ==
    {<<"o","i","l","y">>,
     <<"d","r","y">>,
     <<"c","o","m","b","i","n","a","t","i","o","n">>,
     <<"s","e","n","s","i","t","i","v","e">>,
     <<"a","c","n","e","-","p","r","o","n","e">>,
     <<"a","c","n","e">>,
     <<"w","r","i","n","k","l","e","s">>,
     <<"r","e","d","n","e","s","s">>,
     <<"d","a","r","k"," ","s","p","o","t","s">>,
     <<"b","l","a","c","k","h","e","a","d","s">>,
     <<"p","o","r","e","s">>,
     <<"r","e","t","i","n","o","l">>,
     <<"v","i","t","a","m","i","n"," ","c">>,
     <<"h","y","a","l","u","r","o","n","i","c"," ","a","c","i","d">>,
     <<"n","i","a","c","i","n","a","m","i","d","e">>,
     <<"s","a","l","i","c","y","l","i","c"," ","a","c","i","d">>,
     <<"b","e","n","z","o","y","l"," ","p","e","r","o","x","i","d","e">>,
     <<"c","e","r","a","m","i","d","e","s">>,
     <<"p","e","p","t","i","d","e","s">>,
     <<"a","h","a">>,
     <<"b","h","a">>}
FoodTags ==
    {<<"s","w","e","e","t">>,
     <<"s","a","v","o","r","y">>,
     <<"s","p","i","c","y">>,
     <<"b","i","t","t","e","r">>,
     <<"s","o","u","r">>,
     <<"u","m","a","m","i">>,
     <<"v","e","g","a","n">>,
     <<"g","l","u","t","e","n","-","f","r","e","e">>,
     <<"k","e","t","o">>,
     <<"o","r","g","a","n","i","c">>,
     <<"n","o","n","-","g","m","o">>,
     <<"p","a","l","e","o">>,
     <<"v","e","g","e","t","a","r","i","a","n">>,
     <<"c","r","u","n","c","h","y">>,
     <<"s","m","o","o","t","h">>,
     <<"c","r","e","a","m","y">>,
     <<"c","r","i","s","p","y">>,
     <<"c","h","e","w","y">>,
     <<"s","o","f","t">>}
HouseholdTags ==
    {<<"e","c","o","-","f","r","i","e","n","d","l","y">>,
     <<"b","i","o","d","e","g","r","a","d","a","b","l","e">>,
     <<"r","e","u","s","a","b","l","e">>,
     <<"d","i","s","p","o","s","a","b","l","e">>,
     <<"c","o","n","c","e","n","t","r","a","t","e","d">>,
     <<"s","t","a","i","n","s">>,
     <<"o","d","o","r">>,
     <<"g","e","r","m","s">>,
     <<"b","a","c","t","e","r","i","a">>,
     <<"a","l","l","e","r","g","e","n","s">>,
     <<"d","u","s","t">>,
     <<"c","a","r","p","e","t">>,
     <<"w","o","o","d">>,
     <<"g","l","a","s","s">>,
     <<"t","i","l","e">>,
     <<"f","a","b","r","i","c">>,
     <<"m","e","t","a","l">>,
     <<"p","l","a","s","t","i","c">>}

TagDictionary(category) ==
    CASE category = "skincare"  -> SkincareTags
      [] category = "food"      -> FoodTags
      [] category = "household" -> HouseholdTags
      [] OTHER                  -> {}

\* \b at index p (between the characters p - 1 and p): exactly one of the
\* two is a word character, the ends of the text counting as none.
WordBoundary(text, p) ==
    (p > 1 /\ text[p - 1] \in WordChars)
        # (p <= Len(text) /\ text[p] \in WordChars)

\* re.search(r'\b' + re.escape(tag) + r'\b', text_lower)
TagOccurs(text_lower, tag) ==
    \E i \in 1..(Len(text_lower) - Len(tag) + 1) :
        /\ StartsAt(text_lower, i, tag)
        /\ WordBoundary(text_lower, i)
        /\ WordBoundary(text_lower, i + Len(tag))

\* The category as a tag: a string of characters like the other tags.
CategoryTag(category) ==
    CASE category = "skincare"  -> <<"s","k","i","n","c","a","r","e">>
      [] category = "food"      -> <<"f","o","o","d">>
      [] category = "household" -> <<"h","o","u","s","e","h","o","l","d">>
      [] OTHER                  -> <<"u","n","k","n","o","w","n">>

\* extract_tags(text, category): the tags of the category's dictionaries that
\* occur as words, and the category.  list(set) has no defined order: the
\* result is the set.
ExtractTags(text, category) ==
    {tag \in TagDictionary(category) : TagOccurs(Lower(text), tag)}
    \cup {CategoryTag(category)}

(***************************************************************************)
(* pipeline.py: TrustGraphPipeline.process_reddit_data and                 *)
(* process_youtube_data                                                    *)
(***************************************************************************)
\* A comment of the input file is a record; "text" is its body (Reddit) or
\* text (YouTube) field and "time" its created_utc or published_at field.
\* A field the comment lacks is a field the record lacks.  NotAString is a
\* text field that holds a number, null or a list.
NotAString == <<"not a string">>

\* A comment with five positive keywords that names no product.
Praise ==
    Join(<<<<"l","o","v","e">>, <<"w","o","r","t","h">>,
           <<"p","e","r","f","e","c","t">>,
           <<"r","e","c","o","m","m","e","n","d">>,
           <<"e","x","c","e","l","l","e","n","t">>>>, 1) \o <<"!">>

SampleComments ==
    {[id |-> "c"],
     [id |-> "c", text |-> Praise],
     [id |-> "c", text |-> <<" ">>],
     [id |-> "c", text |-> NotAString],
     [id |-> "c", text |-> <<"A","b">>, time |-> GivenTime],
     [id |-> "c", text |-> <<"b","b">>],
     [id |-> "c", text |-> <<"b">>, time |-> GivenTime]}

\* The input files: a list of posts (videos), each with the list of its
\* comments; a file holds at most MaxComments comments, in posts of at least
\* one.  PostsOf cuts a sequence of comments into posts after the positions
\* in cuts.
RECURSIVE PostsOf(_, _, _, _)
PostsOf(cs, cuts, from, i) ==
    IF i > Len(cs) THEN <<>>
    ELSE IF i = Len(cs) \/ i \in cuts
    THEN <<[comments |-> SubSeq(cs, from, i)]>> \o PostsOf(cs, cuts, i + 1, i + 1)
    ELSE PostsOf(cs, cuts, from, i + 1)

CommentSeqs == UNION {[1..k -> SampleComments] : k \in 0..MaxComments}
RawData ==
    UNION {{PostsOf(cs, cuts, 1, 1) : cuts \in SUBSET (1..(Len(cs) - 1))} :
               cs \in CommentSeqs}
\* A file whose bytes are not text in the encoding open() uses (UTF-8).
Undecodable == [kind |-> "undecodable", data |-> <<>>]
InputFiles == {Absent, Corrupt, Undecodable} \cup {ListOf(d) : d \in RawData}

\* The generation limit of generate_summary's signature.
DefaultMaxLength == 30

\* process_reddit_comment / process_youtube_comment: the cleaned text, the
\* source and the timestamp (Reddit: created_utc, converted when numeric;
\* YouTube: published_at, or the time of the call when it is missing).
Preprocess(comment, source) ==
    [text |-> CleanText(Get(comment, "text", <<>>)),
     source |-> source,
     timestamp |-> IF source = "reddit" THEN Get(comment, "time", None)
                   ELSE IF Get(comment, "time", None) = None THEN Now
                   ELSE Get(comment, "time", None)]

\* The category the batch loops derive for tag extraction (lines 106-118).
PipelineCategory(product_id) ==
    IF product_id # None /\ product_id # <<>>
    THEN (IF Contains(product_id, KwCleanser) \/ Contains(product_id, KwMoisturizer)
          THEN "skincare"
          ELSE IF Contains(product_id, KwFood) \/ Contains(product_id, KwSnack)
          THEN "food"
          ELSE "unknown")
    ELSE "unknown"

\* uuid4().hex[:8] of the n-th atom.
Suffix(n) == <<n>>

\* The record of one processed comment, its atom carrying the fallback id
\* whatever the match.
CreateAtomAlwaysUnknown(processed, r, sentiment, n) ==
    [text |-> processed.text, logged |-> r.logged,
     atom |-> CreateTrustAtom(processed, None, r.info, sentiment.label,
                  sentiment.confidence,
                  ExtractTags(processed.text, PipelineCategory(r.product_id)),
                  GenerateSummary(processed.text, DefaultMaxLength, "absent", <<>>),
                  Suffix(n))]

\* The summary, the tags and step 4 of the loop body (lines 103-129), given
\* the processed comment, the match result and the sentiment; the record
\* holds the text handed to match_product, whether match_product logs it,
\* and the atom.  Texts of at most DefaultMaxLength words, as the sample
\* comments are, come back from generate_summary whatever the summarizer.
CreateAtom(processed, r, sentiment, n) ==
    [text |-> processed.text, logged |-> r.logged,
     atom |-> CreateTrustAtom(processed, r.product_id, r.info, sentiment.label,
                  sentiment.confidence,
                  ExtractTags(processed.text, PipelineCategory(r.product_id)),
                  GenerateSummary(processed.text, DefaultMaxLength, "absent", <<>>),
                  Suffix(n))]

\* Steps 2 and 3 (lines 99-102): match_product and analyze_sentiment on the
\* cleaned text.
MatchAndAnalyze(processed, reg, emb, n) ==
    CreateAtom(processed, MatchStages(reg, emb, processed.text),
               AnalyzeSentiment(processed.text), n)

\* Steps 1 to 4 of the loop body (lines 96-129) for one comment.
MakeAtom(comment, source, reg, emb, n) ==
    MatchAndAnalyze(Preprocess(comment, source), reg, emb, n)

\* A list that takes each new atom at its front.
CollectInFront(st, step) ==
    [st EXCEPT !.count = @ + 1, !.steps = <<step>> \o @]

\* Lines 139-140: the atom joins trust_atoms and count grows by one.
Collect(st, step) ==
    [st EXCEPT !.count = @ + 1, !.steps = Append(@, step)]

\* A test that skips only the comments without any text.
HasNoTextOnlyWhenEmpty(comment) == Get(comment, "text", <<>>) = <<>>

\* Line 93: not comment.get("body", "").strip()
HasNoText(comment) == Strip(Get(comment, "text", <<>>)) = <<>>

RECURSIVE InnerLoop(_, _, _, _, _, _, _, _)
\* Lines 145-146: the limit is checked again after a comment is processed.
AfterComment(comments, ci, st, source, max_items, reg, emb, base) ==
    IF max_items # 0 /\ st.count >= max_items THEN st
    ELSE InnerLoop(comments, ci + 1, st, source, max_items, reg, emb, base)

\* The inner loop (lines 88-146) from comment ci on.  st holds count, the
\* comments processed so far and whether an exception has left the call.
\* max_items = 0 stands for None and 0, which are both falsy.
InnerLoop(comments, ci, st, source, max_items, reg, emb, base) ==
    IF ci > Len(comments) THEN st
    ELSE IF max_items # 0 /\ st.count >= max_items THEN st
    ELSE IF Get(comments[ci], "text", <<>>) = NotAString
    THEN [st EXCEPT !.raised = TRUE]
    ELSE IF HasNoText(comments[ci])
    THEN InnerLoop(comments, ci + 1, st, source, max_items, reg, emb, base)
    ELSE AfterComment(comments, ci,
                      Collect(st, MakeAtom(comments[ci], source, reg, emb,
                                           base + st.count + 1)),
                      source, max_items, reg, emb, base)

\* The outer loop (line 79) from post pi on.
RECURSIVE OuterLoop(_, _, _, _, _, _, _, _)
OuterLoop(posts, pi, st, source, max_items, reg, emb, base) ==
    IF pi > Len(posts) \/ st.raised THEN st
    ELSE OuterLoop(posts, pi + 1,
                   InnerLoop(Get(posts[pi], "comments", <<>>), 1, st, source,
                             max_items, reg, emb, base),
                   source, max_items, reg, emb, base)

\* Lines 67-74: open and json.load inside try; FileNotFoundError (no file)
\* and JSONDecodeError (text that is no JSON document) are caught and the
\* call returns [].  The UnicodeDecodeError of a file whose bytes are no
\* UTF-8 text is neither, and leaves the call.
LoadInput(file) ==
    CASE file.kind = "list"        -> [ok |-> TRUE,  raised |-> FALSE, data |-> file.data]
      [] file.kind = "absent"      -> [ok |-> FALSE, raised |-> FALSE, data |-> <<>>]
      [] file.kind = "corrupt"     -> [ok |-> FALSE, raised |-> FALSE, data |-> <<>>]
      [] file.kind = "undecodable" -> [ok |-> FALSE, raised |-> TRUE,  data |-> <<>>]

\* The comments a batch call processes, in order, and whether it raises.
RunBatch(file, source, max_items, reg, emb, base) ==
    LET loaded == LoadInput(file)
        start  == [count |-> 0, steps |-> <<>>, raised |-> loaded.raised]
    IN IF ~loaded.ok THEN start
       ELSE OuterLoop(loaded.data, 1, start, source, max_items, reg, emb, base)

\* What the environment does to the writes of a batch call: nothing, or it
\* fails one write of one comment.
NoFail == [step |-> 0, slot |-> "none", kind |-> "ok"]
WriteSlots(step, output_given) ==
    (IF step.logged THEN {"log"} ELSE {})
    \cup (IF output_given THEN {"output"} ELSE Range(Dests))
FailPoints(steps, output_given) ==
    {NoFail} \cup
    {f \in [step : 1..Len(steps), slot : {"log", "output"} \cup Range(Dests),
             kind : Outcomes \ {"ok"}] :
        f.slot \in WriteSlots(steps[f.step], output_given)}
OutcomeAt(fail, j, slot) ==
    IF fail.step = j /\ fail.slot = slot THEN fail.kind ELSE "ok"

\* The side effects of the processed comments in order: match_product logs
\* an unmatched text (step 2), then the atom is stored (step 5) in the output
\* file or in the three collections.  The results of the stores are dropped.
RECURSIVE ApplySteps(_, _, _, _, _, _)
ApplySteps(steps, j, fail, output_given, clock, st) ==
    IF j > Len(steps) THEN st
    ELSE LET s == steps[j]
             log2 == IF s.logged
                     THEN LogUnmatched(st.log, s.text, clock + j,
                                       OutcomeAt(fail, j, "log"))
                     ELSE st.log
             outs == [i \in 1..Len(Dests) |-> OutcomeAt(fail, j, Dests[i])]
         IN ApplySteps(steps, j + 1, fail, output_given, clock,
                IF output_given
                THEN [st EXCEPT !.log = log2,
                                !.out = StoreInFile(st.out, s.atom,
                                            OutcomeAt(fail, j, "output")).content]
                ELSE [st EXCEPT !.log = log2,
                                !.fs = StoreAllResult(st.fs, s.atom, outs).fs])

\* The registry the pipeline's matcher has loaded.
PipelineRegistry == <<ProdSerum, ProdCleanser>>

\* What an earlier batch left behind: one atom in its three collections and
\* one entry in the log.
EarlierAtom ==
    CreateTrustAtom([text |-> <<"A","b">>, source |-> "reddit",
                     timestamp |-> GivenTime],
                    PidSerum, FallbackInfo, "neutral", Frac(5, 10),
                    {CategoryTag("unknown")}, <<"A","b">>, Suffix(0))
EarlierFs ==
    [p \in Paths |->
        IF p \in {DestPath(d, EarlierAtom) : d \in Range(Dests)}
        THEN ListOf(<<EarlierAtom>>) ELSE Absent]

InitPipeline ==
    /\ registry = PipelineRegistry
    /\ embeddings = FALSE
    /\ \/ fs = [p \in Paths |-> Absent] /\ log = Absent
       \/ fs = EarlierFs /\ log = ListOf(<<PriorEntry>>)
    /\ calls = 0
    /\ mlast = [NoMatch EXCEPT !.prelog = log]
    /\ ComponentsIdle
    /\ writers = NoWriters
    /\ nextId = 0
    /\ stored = <<>>
    /\ failures = 0
    /\ last = [NoOp EXCEPT !.op = "init"] @@ [pre |-> fs]

AtomsOf(steps) == [j \in 1..Len(steps) |-> steps[j].atom]

\* One batch call: the loops run over the file, the environment fails at
\* most one of the writes, and the call returns the atoms or raises.
ProcessBatch(source, file, output_given, max_items) ==
    /\ \E run \in {RunBatch(file, source, max_items, registry, embeddings, nextId)} :
       \E fail \in FailPoints(run.steps, output_given) :
       \E post \in {ApplySteps(run.steps, 1, fail, output_given, calls,
                               [fs |-> fs, log |-> log, out |-> Absent])} :
          /\ fs' = post.fs
          /\ log' = post.log
          /\ nextId' = nextId + Len(run.steps)
          /\ calls' = calls + Len(run.steps)
          /\ stored' = stored \o AtomsOf(run.steps)
          /\ failures' = failures + (IF fail = NoFail THEN 0 ELSE 1)
          /\ plast' = [op |-> "batch", source |-> source, file |-> file,
                       output_given |-> output_given, max_items |-> max_items,
                       raised |-> run.raised,
                       ret |-> IF run.raised THEN <<>> ELSE AtomsOf(run.steps),
                       steps |-> run.steps, fail |-> fail,
                       prefs |-> fs, prelog |-> log, out |-> post.out]
    /\ UNCHANGED <<registry, embeddings, last, writers, mlast, alast>>

\* max_items: None (0 is falsy like None) or a limit of one comment.
MaxItemsChoices == {0, 1}

\* process_reddit_data(input_path, output_path, max_items), as the one batch
\* call of a behaviour.
ProcessRedditData ==
    /\ plast.op = "none"
    /\ \E file \in InputFiles, output_given \in BOOLEAN,
          max_items \in MaxItemsChoices :
          ProcessBatch("reddit", file, output_given, max_items)

\* process_youtube_data(input_path, output_path, max_items), as the one
\* batch call of a behaviour.
ProcessYoutubeData ==
    /\ plast.op = "none"
    /\ \E file \in InputFiles, output_given \in BOOLEAN,
          max_items \in MaxItemsChoices :
          ProcessBatch("youtube", file, output_given, max_items)

NextPipeline == ProcessRedditData \/ ProcessYoutubeData

SpecPipeline == InitPipeline /\ [][NextPipeline]_vars

(***************************************************************************)
(* Properties of the batch calls.                                          *)
(***************************************************************************)
BatchDone == plast.op = "batch"

\* The comments of an input file in file order.
RECURSIVE Flatten(_, _)
Flatten(posts, i) ==
    IF i > Len(posts) THEN <<>>
    ELSE Get(posts[i], "comments", <<>>) \o Flatten(posts, i + 1)

Malformed(comment) == Get(comment, "text", <<>>) = NotAString
Blank(comment) == ~Malformed(comment) /\ Strip(Get(comment, "text", <<>>)) = <<>>
Processable(comment) == ~Malformed(comment) /\ ~Blank(comment)

\* Whether an atom is in the store the call was asked to fill.
InOutput(atom) ==
    IF plast.output_given
    THEN plast.out.kind = "list" /\ atom \in Range(plast.out.data)
    ELSE \A d \in Range(Dests) :
            /\ fs[DestPath(d, atom)].kind = "list"
            /\ atom \in Range(fs[DestPath(d, atom)].data)

\* C11: when a comment of the batch is malformed (its text field is no
\* string), the batch call does not raise and every other comment with text,
\* up to max_items, yields an atom that is returned and, when the writes
\* succeed, stored.
C11_MalformedCommentSkipped ==
    (BatchDone /\ plast.file.kind = "list"
       /\ \E i \in 1..Len(Flatten(plast.file.data, 1)) :
             Malformed(Flatten(plast.file.data, 1)[i]))
    => LET comments == Flatten(plast.file.data, 1)
           others == Cardinality({i \in 1..Len(comments) : Processable(comments[i])})
       IN /\ ~plast.raised
          /\ Len(plast.ret) = IF plast.max_items = 0 THEN others
                              ELSE Min2(others, plast.max_items)
          /\ plast.fail = NoFail => \A atom \in Range(plast.ret) : InOutput(atom)

\* The atoms a batch call has created, returned or not.
Produced == Range(AtomsOf(plast.steps))

UnknownIffFallback(atom) ==
    (atom.product_id = PidUnknownProduct)
        <=> (atom.product_match_info.match_method = "fallback")
MatchedIdIsRegistryKey(atom) ==
    atom.product_match_info.match_method # "fallback"
        => \E i \in 1..Len(registry) : registry[i].product_id = atom.product_id
AtomIdPrefix(atom) ==
    SubSeq(atom.atom_id, 1, 4) = <<atom.source, "_", atom.product_id, "_">>
FiledUnderProduct(atom) ==
    /\ fs[ProductPath(atom.product_id)].kind = "list"
    /\ atom \in Range(fs[ProductPath(atom.product_id)].data)

C18_BadInputFileYieldsNothing ==
    (BatchDone /\ plast.file.kind # "list")
    => /\ ~plast.raised
       /\ plast.ret = <<>>
       /\ fs = plast.prefs
       /\ log = plast.prelog

(***************************************************************************)
(* Further properties of the matcher.                                      *)
(***************************************************************************)
UnitScore(x) == AtLeast(x, Zero) /\ AtLeast(One, x)

\* C21: every result of match_product has a score in [0,1] fixed by its
\* method: 0.95 or 0.90 for "exact_alias", above 0.6 and at most 1.0 for
\* "fuzzy_brand_product", 0.1 for "fallback"; the product id is absent
\* exactly when the method is "fallback"; every alternative's score is in
\* [0,1].
C21_ScoreFixedByMethod ==
    Matched =>
        /\ UnitScore(mlast.info.match_score)
        /\ mlast.info.match_method \in {"exact_alias", "fuzzy_brand_product", "fallback"}
        /\ mlast.info.match_method = "exact_alias"
              => mlast.info.match_score \in {Frac(95, 100), Frac(90, 100)}
        /\ mlast.info.match_method = "fuzzy_brand_product"
              => Greater(mlast.info.match_score, Frac(6, 10))
        /\ mlast.info.match_method = "fallback"
              => mlast.info.match_score = Frac(1, 10)
        /\ (mlast.product_id = None) <=> (mlast.info.match_method = "fallback")
        /\ \A k \in 1..Len(mlast.info.alternative_matches) :
              UnitScore(mlast.info.alternative_matches[k].score)

\* A fuzzy match whose boosted score, 1.2 * 6/7, was cut to 1.0.
C21_Witness ==
    /\ Matched
    /\ mlast.info.match_method = "fuzzy_brand_product"
    /\ mlast.info.context_factors.brand_mentioned
    /\ mlast.info.match_score = One
    /\ mlast.text \in LongTexts

(***************************************************************************)
(* Further properties of the batch calls.                                  *)
(***************************************************************************)
BatchOnList == BatchDone /\ plast.file.kind = "list"

\* The comments of the input file that have text, in file order, and what
\* clean_text makes of their texts.
InputComments == SelectSeq(Flatten(plast.file.data, 1), Processable)

Created == AtomsOf(plast.steps)

\* The cleaned text of each comment an input file may hold.
CleanedText ==
    [c \in SampleComments |->
        IF Get(c, "text", <<>>) = NotAString THEN <<>>
        ELSE CleanText(Get(c, "text", <<>>))]

\* The atoms carry, one by one, the cleaned texts of the first comments with
\* text.
FromFirstComments(atoms) ==
    \E ic \in {InputComments} :
        /\ Len(atoms) <= Len(ic)
        /\ \A j \in 1..Len(atoms) : atoms[j].feedback_text = CleanedText[ic[j]]

\* The position of an atom of the batch in the order of creation.
CreatedAt(atom) == CHOOSE j \in 1..Len(Created) : Created[j] = atom

\* The atoms of the batch in a collection are in the order of creation.
InCreationOrder(content) ==
    content.kind = "list" =>
        \A i, j \in 1..Len(content.data) :
            (i < j /\ content.data[i] \in Range(Created)
                   /\ content.data[j] \in Range(Created))
                => CreatedAt(content.data[i]) < CreatedAt(content.data[j])

\* The log entries a batch appended, when the log is readable afterwards.
NewLogEntries ==
    IF log.kind = "list" /\ IsPrefix(LogEntries(plast.prelog), log.data)
    THEN SubSeq(log.data, Len(LogEntries(plast.prelog)) + 1, Len(log.data))
    ELSE <<>>

\* The entries of the log follow the order of the comments they come from.
LogInCreationOrder ==
    \A i, j \in 1..Len(NewLogEntries) :
        i < j => \E a, b \in 1..Len(plast.steps) :
                    /\ a < b
                    /\ plast.steps[a].logged /\ plast.steps[b].logged
                    /\ NewLogEntries[i].mention_text = plast.steps[a].text
                    /\ NewLogEntries[j].mention_text = plast.steps[b].text
                    /\ NewLogEntries[i].timestamp < NewLogEntries[j].timestamp

\* C22: a batch call processes the comments in input order: the atoms are
\* created and returned in the order of the comments with text, every
\* collection holds the batch's atoms in that order, and so does the log
\* with the unmatched mentions.
C22_InputOrder ==
    BatchOnList =>
        /\ FromFirstComments(Created)
        /\ ~plast.raised => plast.ret = Created
        /\ \A p \in Paths : InCreationOrder(fs[p])
        /\ InCreationOrder(plast.out)
        /\ LogInCreationOrder
        /\ (plast.fail = NoFail /\ ~plast.output_given) =>
              \A p \in Paths :
                  SelectSeq(fs[p].data, LAMBDA a : a \in Range(Created))
                      = SelectSeq(Created, LAMBDA a : \E d \in Range(Dests) :
                                                         DestPath(d, a) = p)
        /\ (plast.fail = NoFail /\ plast.output_given /\ Created # <<>>) =>
              plast.out = ListOf(Created)

\* A fan-out batch of two comments with different texts, one of them
\* unmatched: both atoms are returned and filed under the source in input
\* order.
C22_Witness ==
    /\ BatchOnList
    /\ ~plast.output_given
    /\ plast.fail = NoFail
    /\ Len(plast.ret) = 2
    /\ plast.ret[1].feedback_text # plast.ret[2].feedback_text
    /\ Len(NewLogEntries) >= 1
    /\ \E n \in 0..1 :
          SubSeq(fs[SourcePath(plast.source)].data, n + 1, n + 2) = plast.ret

AllComments == Flatten(plast.file.data, 1)
NoneMalformed == \A i \in 1..Len(AllComments) : ~Malformed(AllComments[i])
SomeBlank == \E i \in 1..Len(AllComments) : Blank(AllComments[i])

\* The number of comments processed under the limit max_items.
Limited(n) == IF plast.max_items = 0 THEN n ELSE Min2(n, plast.max_items)

\* The atoms a collection holds beyond what it held before the call.
NewIn(p) ==
    IF fs[p].kind = "list"
    THEN {a \in Range(fs[p].data) :
             plast.prefs[p].kind # "list" \/ a \notin Range(plast.prefs[p].data)}
    ELSE {}

\* C23: a comment whose text is missing, empty or only whitespace yields no
\* atom, no storage write and no log entry, does not count toward
\* max_items and does not stop the later comments: the batch creates the
\* atoms of the comments with text, as many as the limit allows, and writes
\* for these alone.
C23_BlankCommentSkipped ==
    (BatchOnList /\ SomeBlank) =>
        /\ plast.raised => ~NoneMalformed
        /\ ~plast.raised =>
              /\ Len(plast.ret) = Limited(Len(InputComments))
              /\ FromFirstComments(plast.ret)
        /\ \A p \in Paths : NewIn(p) \subseteq Range(Created)
        /\ Len(NewLogEntries) <= Len(Created)
        /\ FromFirstComments(Created)
        /\ InputComments = <<>> =>
              fs = plast.prefs /\ log = plast.prelog /\ plast.out = Absent

\* A batch limited to one comment whose first comment is blank: the atom of
\* the second comment is created and filed.
C23_Witness ==
    /\ BatchOnList
    /\ plast.max_items = 1
    /\ ~plast.output_given
    /\ plast.fail = NoFail
    /\ Len(AllComments) = 2
    /\ Blank(AllComments[1])
    /\ Processable(AllComments[2])
    /\ Len(plast.ret) = 1
    /\ plast.ret[1] \in NewIn(SourcePath(plast.source))

(***************************************************************************)
(* Further properties of storage                                           *)
(***************************************************************************)

\* How often atom a stands in the readable category collections.
InCategories(a) ==
    LET readable == {c \in Categories : fs[CategoryPath(c)].kind = "list"}
        occ[S \in SUBSET readable] ==
            IF S = {} THEN 0
            ELSE LET c == CHOOSE x \in S : TRUE
                 IN Occurrences(fs[CategoryPath(c)].data, a) + occ[S \ {c}]
    IN occ[readable]

CategoryAtoms ==
    UNION {Range(fs[CategoryPath(c)].data) : c \in Categories}

\* C24: get_trust_atoms_by_product(p) returns the content of p's product
\* collection when that collection is a readable list, whatever the category
\* collections hold; when the product collection is absent it returns the
\* atoms with product_id p of the category collections, each as often as it
\* stands there, and [] when there is none.
C24_ProductFileElseCategoryScan ==
    last.op = "get_by_product" =>
        LET pf == fs[ProductPath(last.key)]
        IN /\ pf.kind = "list" => last.ret = pf.data
           /\ pf.kind = "absent" =>
                 /\ \A a \in Range(last.ret) : a.product_id = last.key
                 /\ \A a \in CategoryAtoms \cup Range(last.ret) :
                       Occurrences(last.ret, a) =
                           (IF a.product_id = last.key THEN InCategories(a) ELSE 0)
                 /\ (\A a \in CategoryAtoms : a.product_id # last.key) =>
                       last.ret = <<>>

\* A product collection whose content differs from what the category
\* collections hold for the product is returned as it is.
C24_Witness ==
    /\ last.op = "get_by_product"
    /\ fs[ProductPath(last.key)].kind = "list"
    /\ Len(last.ret) = 1
    /\ \E a \in CategoryAtoms : a.product_id = last.key /\ a \notin Range(last.ret)

\* Without a product collection the scan returns the product's atom and
\* leaves out the atom of another product of the same category.
C24_WitnessScan ==
    /\ last.op = "get_by_product"
    /\ fs[ProductPath(last.key)].kind = "absent"
    /\ Len(last.ret) = 1
    /\ \E a \in CategoryAtoms : a.product_id # last.key

\* C26: a store that returns False leaves its collection as it was: the
\* atoms stored before are still there and the collection is still a list a
\* later store can extend.
C26_FailedStoreLeavesCollectionIntact ==
    last.op \in StoreOps =>
        \A d \in last.attempted :
            ~last.flags[d] =>
                LET p == DestPath(d, last.atom)
                IN /\ fs[p] = last.pre[p]
                   /\ fs[p].kind # "corrupt"

(***************************************************************************)
(* Further properties of the content analyzer                              *)
(***************************************************************************)

\* The places of the lowercased text at which word w stands.
PlacesOf(w, text) ==
    {i \in 1..(Len(text) - Len(w) + 1) : SubSeq(Lower(text), i, i + Len(w) - 1) = w}

\* The keywords of a class that stand somewhere in the text.
Present(keywords, text) == {w \in Range(keywords) : PlacesOf(w, text) # {}}

\* The occurrences of the keywords of a class in the text.
OccurrencesIn(keywords, text) ==
    LET sum[S \in SUBSET Present(keywords, text)] ==
            IF S = {} THEN 0
            ELSE LET w == CHOOSE x \in S : TRUE
                 IN Cardinality(PlacesOf(w, text)) + sum[S \ {w}]
    IN sum[Present(keywords, text)]

\* The result the rule table gives for the counts pos and neg.
ByRuleTable(result, pos, neg, text) ==
    /\ (pos > 0 /\ neg = 0) =>
          result = [label |-> "positive",
                    confidence |-> FracMin(Plus(Frac(1, 2), Frac(pos, 10)), Frac(9, 10))]
    /\ (neg > 0 /\ pos = 0) =>
          result = [label |-> "negative",
                    confidence |-> FracMin(Plus(Frac(1, 2), Frac(neg, 10)), Frac(9, 10))]
    /\ (pos > 0 /\ neg > 0 /\ pos # neg) =>
          result = [label |-> "mixed", confidence |-> Frac(7, 10)]
    /\ (pos > 0 /\ neg > 0 /\ pos = neg) =>
          result = [label |-> "mixed", confidence |-> Frac(6, 10)]
    /\ (pos = 0 /\ neg = 0 /\ Present(NeutralKeywords, text) # {}) =>
          result = [label |-> "neutral", confidence |-> Frac(7, 10)]
    /\ (pos = 0 /\ neg = 0 /\ Present(NeutralKeywords, text) = {}) =>
          result = [label |-> "neutral", confidence |-> Frac(5, 10)]

\* C25 as stated: the rule table applied to the numbers of occurrences of
\* the positive and of the negative keywords, a keyword occurring k times
\* counting k.
C25_CountsOccurrences ==
    Done("analyze_sentiment") =>
        ByRuleTable(alast.result,
                    OccurrencesIn(PositiveKeywords, alast.text),
                    OccurrencesIn(NegativeKeywords, alast.text), alast.text)

\* C25 amended: the rule table applied to the numbers of distinct positive
\* and negative keywords that occur in the lowercased text, a keyword
\* counting once however often it occurs.
C25_CountsKeywordsPresent ==
    Done("analyze_sentiment") =>
        ByRuleTable(alast.result,
                    Cardinality(Present(PositiveKeywords, alast.text)),
                    Cardinality(Present(NegativeKeywords, alast.text)), alast.text)

\* A text with the same keyword twice is positive with confidence 0.6.
C25_Witness ==
    /\ Done("analyze_sentiment")
    /\ OccurrencesIn(PositiveKeywords, alast.text) = 2
    /\ Cardinality(Present(PositiveKeywords, alast.text)) = 1
    /\ alast.result = [label |-> "positive", confidence |-> Frac(6, 10)]

\* Five positive keywords: the confidence stops at 0.9.
C25_WitnessCap ==
    /\ Done("analyze_sentiment")
    /\ Cardinality(Present(PositiveKeywords, alast.text)) = 5
    /\ alast.result.confidence = Frac(9, 10)

\* C27: with fan-out storage every atom of a batch is filed in the category
\* collection of the category the pipeline derived for its tags: the name
\* of the collection that holds the atom is among the atom's tags.
C27_TagCategoryIsStorageCategory ==
    (BatchDone /\ ~plast.output_given) =>
        \A atom \in Produced, c \in Categories :
            (fs[CategoryPath(c)].kind = "list"
                 /\ atom \in Range(fs[CategoryPath(c)].data))
                => CategoryTag(c) \in atom.tags

\* C28: every atom of a batch carries a timestamp that is not null: the
\* time its comment gives, or the processing time when the comment gives
\* none.
C28_TimestampNeverNull ==
    BatchDone =>
        \A i \in 1..Len(Created) :
            /\ Created[i].timestamp # None
            /\ Get(InputComments[i], "time", None) = None =>
                  Created[i].timestamp = Now

\* C29: a batch call with max_items = m >= 1 creates the atoms of the first
\* min(m, n) of the n comments with text, in input order, and nothing else
\* is written or logged; with max_items 0 or None it creates the atoms of
\* all n.
C29_LimitCounts ==
    BatchOnList =>
        /\ Len(Created) = Limited(Len(InputComments))
        /\ FromFirstComments(Created)
        /\ \A p \in Paths : NewIn(p) \subseteq Range(Created)
        /\ Len(NewLogEntries) <= Len(Created)

Method(atom) == atom.product_match_info.match_method

\* C30: among the atoms of a batch, a "fallback" atom has confidence_score
\* at most 0.34, a "fuzzy_brand_product" atom more than 0.57 and an
\* "exact_alias" atom at least 0.78, so that every matched atom has a
\* higher confidence_score than every unmatched one.
C30_ConfidenceSeparatesMatched ==
    BatchDone =>
        /\ \A atom \in Produced :
              /\ Method(atom) \in {"fallback", "fuzzy_brand_product", "exact_alias"}
              /\ Method(atom) = "fallback" =>
                    AtLeast(Frac(34, 100), atom.confidence_score)
              /\ Method(atom) = "fuzzy_brand_product" =>
                    Greater(atom.confidence_score, Frac(57, 100))
              /\ Method(atom) = "exact_alias" =>
                    AtLeast(atom.confidence_score, Frac(78, 100))
        /\ \A a, b \in Produced :
              (Method(a) # "fallback" /\ Method(b) = "fallback") =>
                  Greater(a.confidence_score, b.confidence_score)

\* A batch with an unmatched atom at 0.34 (sentiment confidence 0.9) and an
\* exactly matched atom at 0.78 (match score 0.9, sentiment confidence 0.5).
C30_Witness ==
    /\ BatchDone
    /\ \E a, b \in Produced :
          /\ Method(a) = "fallback"
          /\ a.confidence_score = Frac(34, 100)
          /\ Method(b) = "exact_alias"
          /\ b.confidence_score = Frac(78, 100)

====
